---- MODULE Spec2Model ----
(***************************************************************************)
(* Patient intake hub: the row-level-security policies built up by the     *)
(* SQL migrations, the create_intake_form upsert, the intake page's        *)
(* submit handler and the send-intake-email / track-doxy-redirect edge     *)
(* functions.                                                              *)
(***************************************************************************)
EXTENDS Integers, Sequences, FiniteSets, TLC

VARIABLES
    applied,       \* set of migrations that have been run
    policies,      \* pg_policies: set of policy records
    constraints,   \* table constraints added by ALTER TABLE
    rpcGrants,     \* roles holding EXECUTE on create_intake_form
    bucket,        \* the storage.buckets row of 'intake-forms'
    user_roles,    \* public.user_roles rows
    patients,      \* public.patients rows (ids)
    patient_name,  \* column name of public.patients, by row id
    intake_sessions, \* public.intake_sessions rows
    calls,         \* createPatientFromSession calls in progress
    timer,         \* state of one useSessionTimeout instance
    roleHook,      \* state of one useUserRole instance
    intake_forms,  \* public.intake_forms rows
    email_logs,    \* public.email_logs rows, in insertion order
    objects,       \* storage.objects of the intake-forms bucket
    audit_logs,    \* public.audit_logs rows, in insertion order
    now,           \* the database clock, now()
    page,          \* React state of the IntakeForms page of one visitor
    run,           \* the send-intake-email invocation in progress
    last           \* the last request answered and its response

schemaVars == <<applied, policies, constraints, rpcGrants, bucket>>
storeVars == <<objects, audit_logs>>
dbVars == <<user_roles, patients, intake_forms, email_logs>>
sessVars == <<intake_sessions, calls>>
hookVars == <<timer, roleHook>>
extVars == <<patient_name, sessVars, hookVars>>
vars == <<applied, policies, constraints, rpcGrants, bucket, user_roles, patients,
          patient_name, intake_sessions, calls, timer, roleHook, intake_forms, email_logs, objects, audit_logs, now, page,
          run, last>>

NULL == "null"

\* SQL NULL in a timestamp column
NoTime == 0 - 1

\* pdf_url of a form whose PDF was never stored
NoUrl == << >>

\* ------------------------------------------------------------------------
\* Bounds of the model
\* ------------------------------------------------------------------------
MaxTime == 1
MaxLogs == 2

PatientIds == {"p1", "p2"}
PatientNames == {"Jane Doe", "Janet Roe"}
SessionPatientIds == {"p3", "p4"}
SessionTokens == {"t1", "t2"}
CallIds == {1, 2}
FormIds == {"f1", "f2"}
Times == 0..MaxTime

\* ------------------------------------------------------------------------
\* Principals.  role is the database role of the request (auth.role()),
\* uid is auth.uid().
\* ------------------------------------------------------------------------
Anon == [role |-> "anon", uid |-> NULL]
AdminUser == [role |-> "authenticated", uid |-> "u_admin"]
StaffUser == [role |-> "authenticated", uid |-> "u_staff"]
NoRoleUser == [role |-> "authenticated", uid |-> "u_none"]
ServiceRole == [role |-> "service_role", uid |-> NULL]
ClientPrincipals == {Anon, AdminUser, StaffUser, NoRoleUser}
\* Callers that differ in database role / role assignment
Writers == {Anon, NoRoleUser, StaffUser}
RpcCallers == {Anon, StaffUser}

\* ------------------------------------------------------------------------
\* Migrations: each is the sequence of its statements.
\* ------------------------------------------------------------------------
Create(tbl, name, cmd, roles, using, check) ==
    [op |-> "create", tbl |-> tbl, name |-> name, cmd |-> cmd,
     roles |-> roles, using |-> using, check |-> check]

Drop(tbl, name) ==
    [op |-> "drop", tbl |-> tbl, name |-> name, cmd |-> NULL,
     roles |-> {}, using |-> NULL, check |-> NULL]

AddConstraint(tbl, name) ==
    [op |-> "constraint", tbl |-> tbl, name |-> name, cmd |-> NULL,
     roles |-> {}, using |-> NULL, check |-> NULL]

\* INSERT INTO storage.buckets, INSERT ... ON CONFLICT (id) DO NOTHING and
\* UPDATE storage.buckets SET public for the bucket 'intake-forms'
BucketInsert(public) == [op |-> "bucket_insert", public |-> public]
BucketEnsure(public) == [op |-> "bucket_ensure", public |-> public]
BucketUpdate(public) == [op |-> "bucket_update", public |-> public]

Visibility(public) == IF public THEN "public" ELSE "private"

GrantExecute(name, roles) ==
    [op |-> "grant", tbl |-> NULL, name |-> name, cmd |-> NULL,
     roles |-> roles, using |-> NULL, check |-> NULL]

Public == {"public"}
Authd == {"authenticated"}
AnonOnly == {"anon"}

M_133643 == <<
    Create("patients", "Authenticated staff can view all patients", "SELECT", Authd, "true", NULL),
    Create("patients", "Authenticated staff can create patients", "INSERT", Authd, NULL, "true"),
    Create("patients", "Authenticated staff can update patients", "UPDATE", Authd, "true", NULL),
    Create("patients", "Authenticated staff can delete patients", "DELETE", Authd, "true", NULL),
    Create("intake_forms", "Authenticated staff can view all intake forms", "SELECT", Authd, "true", NULL),
    Create("intake_forms", "Authenticated staff can create intake forms", "INSERT", Authd, NULL, "true"),
    Create("intake_forms", "Authenticated staff can update intake forms", "UPDATE", Authd, "true", NULL),
    Create("intake_forms", "Authenticated staff can delete intake forms", "DELETE", Authd, "true", NULL) >>

M_134912 == <<
    Create("patients", "Allow public to create patients", "INSERT", AnonOnly, NULL, "true"),
    Create("intake_forms", "Allow public to create intake forms", "INSERT", AnonOnly, NULL, "true"),
    Drop("intake_forms", "Allow public to create intake forms"),
    Drop("intake_forms", "Authenticated staff can create intake forms"),
    Create("intake_forms", "Allow public to create intake forms", "INSERT", Public, NULL, "true"),
    Create("intake_forms", "Authenticated staff can create intake forms", "INSERT", Public, NULL, "role_authenticated"),
    Drop("intake_forms", "Authenticated staff can view all intake forms"),
    Create("intake_forms", "Authenticated staff can view all intake forms", "SELECT", Public, "role_authenticated", NULL) >>

M_part_000 == <<
    Drop("intake_forms", "Allow public to create intake forms"),
    Drop("intake_forms", "Authenticated staff can create intake forms"),
    Create("intake_forms", "Allow public to create intake forms", "INSERT", Public, NULL, "true"),
    Create("intake_forms", "Authenticated staff can create intake forms", "INSERT", Public, NULL, "role_authenticated") >>

M_140317 == <<
    Create("email_logs", "Authenticated staff can view email logs", "SELECT", Public, "role_authenticated", NULL),
    Create("email_logs", "Authenticated staff can create email logs", "INSERT", Public, NULL, "role_authenticated") >>

M_141350 == <<
    Create("patients", "Allow anonymous to read patients for foreign key validation", "SELECT", Public, "true", NULL) >>

\* part_002 leaving the anonymous read policy in place
M_part_002_Kept == << >>

M_part_002 == <<
    Drop("patients", "Allow anonymous to read patients for foreign key validation") >>

M_143529 == <<
    BucketInsert(TRUE),
    Create("storage.objects", "Allow public read access to intake forms", "SELECT", Public, "bucket", NULL),
    Create("storage.objects", "Allow authenticated users to upload intake forms", "INSERT", Public, NULL, "bucket"),
    Create("storage.objects", "Allow authenticated users to update intake forms", "UPDATE", Public, "bucket", NULL),
    Create("storage.objects", "Allow authenticated users to delete intake forms", "DELETE", Public, "bucket", NULL),
    Drop("intake_forms", "Allow public to create intake forms"),
    Drop("intake_forms", "Authenticated staff can create intake forms"),
    Drop("intake_forms", "Authenticated staff can view all intake forms"),
    Drop("intake_forms", "Authenticated staff can update intake forms"),
    Drop("intake_forms", "Authenticated staff can delete intake forms"),
    Create("intake_forms", "Anonymous can create intake forms", "INSERT", Public, NULL, "true"),
    Create("intake_forms", "Authenticated staff can view intake forms", "SELECT", Public, "true", NULL),
    Create("intake_forms", "Authenticated staff can update intake forms", "UPDATE", Public, "true", NULL),
    Create("intake_forms", "Authenticated staff can delete intake forms", "DELETE", Public, "true", NULL) >>

M_154900 == <<
    Create("intake_forms", "Deny all anonymous reads to intake forms", "SELECT", AnonOnly, "false", NULL),
    Create("intake_forms", "Only authenticated staff can read intake forms", "SELECT", Authd, "true", NULL),
    Drop("intake_forms", "Authenticated staff can view intake forms"),
    GrantExecute("create_intake_form", {"anon", "authenticated"}) >>

\* 154946 without the constraint
M_154946_NoUnique == << >>

M_154946 == <<
    AddConstraint("intake_forms", "unique_patient_intake_form") >>

M_155154 == <<
    AddConstraint("user_roles", "user_roles_user_id_key"),
    Create("user_roles", "Users can view their own role", "SELECT", Authd, "own_row", NULL),
    Create("user_roles", "Admins can view all roles", "SELECT", Authd, "is_admin", NULL),
    Create("user_roles", "Only admins can assign roles", "ALL", Authd, "is_admin", "is_admin") >>

M_155212 == <<
    Drop("patients", "Authenticated staff can view all patients"),
    Drop("patients", "Authenticated staff can create patients"),
    Drop("patients", "Authenticated staff can update patients"),
    Drop("patients", "Authenticated staff can delete patients"),
    Create("patients", "Only medical staff can view patients", "SELECT", Authd, "has_medical_access", NULL),
    Create("patients", "Only medical staff can create patients", "INSERT", Authd, NULL, "has_medical_access"),
    Create("patients", "Only medical staff can update patients", "UPDATE", Authd, "has_medical_access", "has_medical_access"),
    Create("patients", "Only admins can delete patients", "DELETE", Authd, "is_admin", NULL) >>

\* part_001 leaving the earlier read policy for every authenticated user
M_part_001_KeepsStaffRead == <<
    Drop("intake_forms", "Authenticated staff can update intake forms"),
    Drop("intake_forms", "Authenticated staff can delete intake forms"),
    Create("intake_forms", "Only medical staff can view intake forms", "SELECT", Authd, "has_medical_access", NULL),
    Create("intake_forms", "Only medical staff can update intake forms", "UPDATE", Authd, "has_medical_access", "has_medical_access"),
    Create("intake_forms", "Only admins can delete intake forms", "DELETE", Authd, "is_admin", NULL) >>

M_part_001 == <<
    Drop("intake_forms", "Only authenticated staff can read intake forms"),
    Drop("intake_forms", "Authenticated staff can update intake forms"),
    Drop("intake_forms", "Authenticated staff can delete intake forms"),
    Create("intake_forms", "Only medical staff can view intake forms", "SELECT", Authd, "has_medical_access", NULL),
    Create("intake_forms", "Only medical staff can update intake forms", "UPDATE", Authd, "has_medical_access", "has_medical_access"),
    Create("intake_forms", "Only admins can delete intake forms", "DELETE", Authd, "is_admin", NULL) >>

M_161419 == <<
    Drop("patients", "Allow public to create patients"),
    Drop("patients", "Only medical staff can create patients"),
    Create("patients", "Allow intake and medical staff to create patients", "INSERT", Public, NULL, "true"),
    Drop("intake_forms", "Anonymous can create intake forms"),
    Create("intake_forms", "Allow intake creation", "INSERT", Public, NULL, "true") >>

M_162032 == <<
    Drop("intake_forms", "Allow intake creation"),
    Create("intake_forms", "Allow anonymous intake creation", "INSERT", AnonOnly, NULL, "true"),
    Create("intake_forms", "Allow authenticated intake creation", "INSERT", Authd, NULL, "true") >>

M_162251 == <<
    Drop("intake_forms", "Allow anonymous intake creation"),
    Drop("intake_forms", "Allow authenticated intake creation"),
    Create("intake_forms", "Allow anonymous intake creation", "INSERT", AnonOnly, "true", "true"),
    Create("intake_forms", "Allow authenticated intake creation", "INSERT", Authd, "true", "true") >>

\* The hardening migration without the statements that close the bucket:
\* the bucket stays public and the public read policy is kept.
M_173214_StillPublic == <<
    Create("storage.objects", "Medical staff can view intake form files", "SELECT", Public, "bucket_and_medical", NULL),
    Create("storage.objects", "Medical staff can upload intake form files", "INSERT", Public, NULL, "bucket_and_medical"),
    Create("storage.objects", "Medical staff can update intake form files", "UPDATE", Public, "bucket_and_medical", NULL),
    Create("storage.objects", "Medical staff can delete intake form files", "DELETE", Public, "bucket_and_medical", NULL),
    Drop("patients", "Allow intake and medical staff to create patients"),
    Drop("intake_forms", "Allow anonymous intake creation"),
    Drop("intake_forms", "Allow authenticated intake creation"),
    Create("intake_sessions", "Allow anonymous intake session creation", "INSERT", Public, NULL, "true"),
    Create("intake_sessions", "Allow session token holders to view their session", "SELECT", Public, "true", NULL),
    Create("intake_sessions", "Allow session token holders to update their session", "UPDATE", Public, "true", "true"),
    Create("intake_sessions", "Medical staff can view all intake sessions", "SELECT", Public, "has_medical_access", NULL),
    Create("patients", "Allow patient creation from valid intake sessions", "INSERT", Public, NULL, "true"),
    Create("intake_forms", "Allow intake form creation from valid sessions", "INSERT", Public, NULL, "true"),
    Create("audit_logs", "Only admins can view audit logs", "SELECT", Public, "is_admin", NULL),
    Create("audit_logs", "System can create audit logs", "INSERT", Public, NULL, "true") >>

M_173214 == <<
    BucketUpdate(FALSE),
    Drop("storage.objects", "Allow public read access to intake forms"),
    Create("storage.objects", "Medical staff can view intake form files", "SELECT", Public, "bucket_and_medical", NULL),
    Create("storage.objects", "Medical staff can upload intake form files", "INSERT", Public, NULL, "bucket_and_medical"),
    Create("storage.objects", "Medical staff can update intake form files", "UPDATE", Public, "bucket_and_medical", NULL),
    Create("storage.objects", "Medical staff can delete intake form files", "DELETE", Public, "bucket_and_medical", NULL),
    Drop("patients", "Allow intake and medical staff to create patients"),
    Drop("intake_forms", "Allow anonymous intake creation"),
    Drop("intake_forms", "Allow authenticated intake creation"),
    Create("intake_sessions", "Allow anonymous intake session creation", "INSERT", Public, NULL, "true"),
    Create("intake_sessions", "Allow session token holders to view their session", "SELECT", Public, "true", NULL),
    Create("intake_sessions", "Allow session token holders to update their session", "UPDATE", Public, "true", "true"),
    Create("intake_sessions", "Medical staff can view all intake sessions", "SELECT", Public, "has_medical_access", NULL),
    Create("patients", "Allow patient creation from valid intake sessions", "INSERT", Public, NULL, "true"),
    Create("intake_forms", "Allow intake form creation from valid sessions", "INSERT", Public, NULL, "true"),
    Create("audit_logs", "Only admins can view audit logs", "SELECT", Public, "is_admin", NULL),
    Create("audit_logs", "System can create audit logs", "INSERT", Public, NULL, "true") >>

M_175850 == <<
    BucketEnsure(FALSE),
    Create("storage.objects", "Medical staff can view intake form PDFs", "SELECT", Public, "bucket_and_role_row", NULL),
    Create("storage.objects", "System can upload intake form PDFs", "INSERT", Public, NULL, "bucket_and_service_role"),
    Create("storage.objects", "System can update intake form PDFs", "UPDATE", Public, "bucket_and_service_role", NULL),
    Create("storage.objects", "System can delete intake form PDFs", "DELETE", Public, "bucket_and_service_role", NULL) >>

\* The migrations whose file name (and so timestamp) is known, in order.
NamedOrder == << "133643", "134912", "140317", "141350", "143529", "154900",
                 "154946", "155154", "155212", "161419", "162032", "162251",
                 "173214", "175850" >>

Unnamed == {"part_000", "part_001", "part_002"}
AllMigrations == {NamedOrder[i] : i \in 1..Len(NamedOrder)} \cup Unnamed

Statements(m) ==
    CASE m = "133643" -> M_133643
      [] m = "134912" -> M_134912
      [] m = "part_000" -> M_part_000
      [] m = "140317" -> M_140317
      [] m = "141350" -> M_141350
      [] m = "part_002" -> M_part_002
      [] m = "143529" -> M_143529
      [] m = "154900" -> M_154900
      [] m = "154946" -> M_154946
      [] m = "155154" -> M_155154
      [] m = "155212" -> M_155212
      [] m = "part_001" -> M_part_001
      [] m = "161419" -> M_161419
      [] m = "162032" -> M_162032
      [] m = "162251" -> M_162251
      [] m = "173214" -> M_173214
      [] m = "175850" -> M_175850

\* ------------------------------------------------------------------------
\* Executing migrations
\* ------------------------------------------------------------------------
Schema(pol, con, gr, bk) ==
    [policies |-> pol, constraints |-> con, rpcGrants |-> gr, bucket |-> bk]

EmptySchema == Schema({}, {}, {}, "absent")

PolicyOf(st) ==
    [tbl |-> st.tbl, name |-> st.name, cmd |-> st.cmd, roles |-> st.roles,
     using |-> st.using, check |-> st.check]

\* One SQL statement: CREATE POLICY, DROP POLICY IF EXISTS, ADD CONSTRAINT,
\* REVOKE ALL ... FROM PUBLIC; GRANT EXECUTE ... TO roles.
Exec(sch, st) ==
    CASE st.op = "create" ->
           [sch EXCEPT !.policies = @ \cup {PolicyOf(st)}]
      [] st.op = "drop" ->
           [sch EXCEPT !.policies = {p \in @ : ~(p.tbl = st.tbl /\ p.name = st.name)}]
      [] st.op = "constraint" ->
           [sch EXCEPT !.constraints = @ \cup {st.name}]
      [] st.op = "grant" ->
           [sch EXCEPT !.rpcGrants = st.roles]
      [] st.op \in {"bucket_insert", "bucket_ensure"} ->
           [sch EXCEPT !.bucket = IF @ = "absent" THEN Visibility(st.public) ELSE @]
      [] st.op = "bucket_update" ->
           [sch EXCEPT !.bucket = IF @ = "absent" THEN @ ELSE Visibility(st.public)]

\* The statements of one file in file order: a policy is there afterwards
\* when no later statement of the file drops it; the last GRANT stands.
ExecAll(sch, stmts) ==
    LET n == Len(stmts)
        DroppedAfter(p, i) ==
            \E j \in (i + 1)..n : Exec([sch EXCEPT !.policies = {p}], stmts[j]).policies = {}
        Created == {i \in 1..n : stmts[i].op = "create"}
        Grants == {i \in 1..n : stmts[i].op = "grant"}
        LastGrant == CHOOSE i \in Grants : \A j \in Grants : j <= i
        Inserts == {i \in 1..n : stmts[i].op \in {"bucket_insert", "bucket_ensure"}}
        First == IF sch.bucket # "absent" THEN 0
                 ELSE IF Inserts = {} THEN n + 1
                 ELSE CHOOSE i \in Inserts : \A j \in Inserts : i <= j
        Later == {i \in 1..n : stmts[i].op = "bucket_update" /\ i > First}
        LastUpdate == CHOOSE i \in Later : \A j \in Later : j <= i
        BucketRow == [sch EXCEPT !.bucket = "private"]
    IN  [sch EXCEPT
           !.policies = {p \in @ : ~DroppedAfter(p, 0)}
                        \cup {PolicyOf(stmts[i]) : i \in {k \in Created : ~DroppedAfter(PolicyOf(stmts[k]), k)}},
           !.constraints = @ \cup {stmts[i].name : i \in {k \in 1..n : stmts[k].op = "constraint"}},
           !.rpcGrants = IF Grants = {} THEN @ ELSE Exec(sch, stmts[LastGrant]).rpcGrants,
           !.bucket = IF First > n THEN @
                      ELSE IF Later # {} THEN Exec(BucketRow, stmts[LastUpdate]).bucket
                      ELSE IF First = 0 THEN @
                      ELSE Exec(sch, stmts[First]).bucket]

IndexOf(m) == CHOOSE i \in 1..Len(NamedOrder) : NamedOrder[i] = m

\* A named migration runs after every earlier named one.  The three
\* migrations without a file name run inside the window their own text
\* fixes: part_000 replays the DROP/CREATE pair of 134912 that 143529
\* replaces; part_002 removes the policy created by 141350 and lists the
\* "Authenticated staff can *" policies (dropped by 155212) as remaining;
\* part_001 calls has_medical_access() and is_admin(), created by 155154.
Ready(m) ==
    /\ m \notin applied
    /\ CASE m = "part_000" -> "134912" \in applied /\ "143529" \notin applied
         [] m = "part_002" -> "141350" \in applied /\ "155212" \notin applied
         [] m = "part_001" -> "155154" \in applied
         [] OTHER ->
              /\ \A j \in 1..(IndexOf(m) - 1) : NamedOrder[j] \in applied
              /\ (m = "143529" => "part_000" \in applied)
              /\ (m = "155212" => "part_002" \in applied)

ApplyMigration(m) ==
    /\ Ready(m)
    /\ LET sch == ExecAll(Schema(policies, constraints, rpcGrants, bucket), Statements(m))
       IN  /\ policies' = sch.policies
           /\ constraints' = sch.constraints
           /\ rpcGrants' = sch.rpcGrants
           /\ bucket' = sch.bucket
    /\ applied' = applied \cup {m}
    /\ UNCHANGED <<storeVars, extVars, user_roles, patients, intake_forms, email_logs, now, page, run, last>>

\* One order in which all migrations run, and the schema it leaves.
CanonicalOrder == << "133643", "134912", "part_000", "140317", "141350",
                     "part_002", "143529", "154900", "154946", "155154",
                     "155212", "part_001", "161419", "162032", "162251",
                     "173214", "175850" >>

RECURSIVE AllStatements(_)
AllStatements(ms) ==
    IF ms = << >> THEN << >>
    ELSE IF Len(ms) = 1 THEN Statements(ms[1])
    ELSE LET half == Len(ms) \div 2
         IN  AllStatements(SubSeq(ms, 1, half)) \o AllStatements(SubSeq(ms, half + 1, Len(ms)))

Migrate(sch, ms) == ExecAll(sch, AllStatements(ms))

FinalSchema == Migrate(EmptySchema, CanonicalOrder)

Migrated == applied = AllMigrations

\* ------------------------------------------------------------------------
\* Row level security
\* ------------------------------------------------------------------------
MedicalRoles == {"admin", "medical_staff", "receptionist"}

has_medical_access(pr) ==
    \E r \in user_roles : r.user_id = pr.uid /\ r.role \in MedicalRoles

is_admin(pr) ==
    \E r \in user_roles : r.user_id = pr.uid /\ r.role = "admin"

Applies(p, pr, cmd, tbl) ==
    /\ p.tbl = tbl
    /\ p.cmd \in {cmd, "ALL"}
    /\ ("public" \in p.roles \/ pr.role \in p.roles)

\* EXISTS (SELECT 1 FROM public.user_roles WHERE user_id = auth.uid() AND
\* role IN (...)) written inside a policy: the subquery runs as the caller,
\* under the SELECT policies of user_roles.
SeesOwnMedicalRole(pr) ==
    \E r \in user_roles :
       /\ r.user_id = pr.uid /\ r.role \in MedicalRoles
       /\ \/ pr.role = "service_role"
          \/ \E p \in policies :
                /\ Applies(p, pr, "SELECT", "user_roles")
                /\ \/ p.using = "true"
                   \/ p.using = "own_row" /\ r.user_id = pr.uid
                   \/ p.using = "is_admin" /\ is_admin(pr)
                   \/ p.using = "has_medical_access" /\ has_medical_access(pr)

\* The value of a policy expression for principal pr; owner is the user_id
\* column of the row for the one expression that reads the row.
Eval(expr, pr, owner) ==
    CASE expr = "true" -> TRUE
      [] expr = "false" -> FALSE
      [] expr = "role_authenticated" -> pr.role = "authenticated"
      [] expr = "has_medical_access" -> has_medical_access(pr)
      [] expr = "is_admin" -> is_admin(pr)
      [] expr = "own_row" -> owner = pr.uid
      [] expr = "bucket" -> TRUE
      [] expr = "bucket_and_medical" -> has_medical_access(pr)
      [] expr = "bucket_and_service_role" -> pr.role = "service_role"
      [] expr = "bucket_and_role_row" -> SeesOwnMedicalRole(pr)

\* Permissive policies are OR-ed; with no applicable policy the row is
\* invisible (USING) or the write is rejected (WITH CHECK).  The service
\* role bypasses row level security.
PassesUsing(pol, pr, cmd, tbl, owner) ==
    \/ pr.role = "service_role"
    \/ \E p \in pol : Applies(p, pr, cmd, tbl) /\ p.using # NULL /\ Eval(p.using, pr, owner)

PassesCheck(pol, pr, cmd, tbl, owner) ==
    \/ pr.role = "service_role"
    \/ \E p \in pol : /\ Applies(p, pr, cmd, tbl)
                      /\ Eval(IF p.check # NULL THEN p.check ELSE p.using, pr, owner)

\* ------------------------------------------------------------------------
\* Form answers
\* ------------------------------------------------------------------------
BaseData ==
    [dateOfBirth |-> "1990-01-01", address |-> "1 Main St",
     emergencyContactName |-> "Sam Doe", emergencyContactPhone |-> "555-0100",
     newPatientConsent |-> TRUE, patientName |-> "Jane Doe",
     insuranceAssignmentConsent |-> TRUE, emergencyMedicalConsent |-> TRUE,
     accidentDate |-> "2025-08-01"]

\* What the visitor may have entered when pressing submit: complete
\* answers, and answers with one required entry missing or declined.
PageInputs ==
    { BaseData,
      [BaseData EXCEPT !.address = "2 Oak Ave"],
      [BaseData EXCEPT !.dateOfBirth = ""],
      [BaseData EXCEPT !.newPatientConsent = FALSE],
      [BaseData EXCEPT !.insuranceAssignmentConsent = FALSE],
      [BaseData EXCEPT !.emergencyMedicalConsent = FALSE] }

Signatures == {NULL, "data:image/png;sig"}

\* const formData = { ...data, signature }
WithSignature(data, signature) == data @@ [signature |-> signature]

\* Payloads of create_intake_form calls made without the page.
RpcAnswers ==
    { WithSignature(BaseData, "data:image/png;sig"),
      WithSignature([BaseData EXCEPT !.insuranceAssignmentConsent = FALSE], "data:image/png;sig") }

\* ------------------------------------------------------------------------
\* Tables
\* ------------------------------------------------------------------------
NewForm(id, p, a, s) ==
    [id |-> id, patient_id |-> p, form_data |-> a, signed_at |-> s,
     fax_sent |-> FALSE, email_sent |-> FALSE, pdf_url |-> NoUrl,
     pdf_generated_at |-> NoTime, doxy_redirect_at |-> NoTime]

FormsOf(forms, p) == {f \in forms : f.patient_id = p}
FormIdsIn(forms) == {f.id : f \in forms}

Coalesce(t, clock) == IF t = NoTime THEN clock ELSE t

\* An upsert that keeps the first signature time on conflict
UpsertForm_KeepSigned(forms, id, p, a, t, clock) ==
    IF FormsOf(forms, p) = {}
    THEN forms \cup {NewForm(id, p, a, Coalesce(t, clock))}
    ELSE { IF f.patient_id = p
           THEN [f EXCEPT !.form_data = a, !.fax_sent = FALSE, !.email_sent = FALSE]
           ELSE f : f \in forms }

\* INSERT ... ON CONFLICT (patient_id) DO UPDATE ... of create_intake_form;
\* id is the gen_random_uuid() default used when a row is inserted.
UpsertForm(forms, id, p, a, t, clock) ==
    IF FormsOf(forms, p) = {}
    THEN forms \cup {NewForm(id, p, a, Coalesce(t, clock))}
    ELSE { IF f.patient_id = p
           THEN [f EXCEPT !.form_data = a, !.signed_at = Coalesce(t, clock),
                          !.fax_sent = FALSE, !.email_sent = FALSE]
           ELSE f : f \in forms }

\* RETURNING id INTO new_id
ReturnedId(forms, p) == (CHOOSE f \in forms : f.patient_id = p).id

Resp(code, id, rows) == [code |-> code, id |-> id, rows |-> rows]

\* State of the form of patient p before a request: none, unsigned, signed
PriorOf(forms, p) ==
    IF FormsOf(forms, p) = {} THEN "none"
    ELSE IF \E f \in FormsOf(forms, p) : f.signed_at # NoTime THEN "signed"
    ELSE "unsigned"

\* A request and its reply: who asked, the operation and its arguments, for
\* create_intake_form the value of now() when it ran (0 otherwise), whether
\* the row asked for existed, and the reply.
Req(who, op, tbl, key, a, t, at, existed, prior, resp) ==
    [who |-> who, op |-> op, tbl |-> tbl, key |-> key, a |-> a, t |-> t,
     at |-> at, existed |-> existed, prior |-> prior, resp |-> resp]

Nobody == [role |-> "none", uid |-> NULL]

NoReq == Req(Nobody, "none", NULL, NULL, NULL, NoTime, 0, FALSE, "none", Resp("none", NULL, {}))

\* The outcome of create_intake_form(_patient_id, _form_data, _signed_at)
\* called by a principal of database role dbrole: the reply and the table.
create_intake_form(dbrole, forms, id, p, a, t, clock) ==
    IF dbrole \notin rpcGrants
    THEN [resp |-> Resp("permission_denied", NULL, {}), forms |-> forms]
    ELSE IF "unique_patient_intake_form" \notin constraints
    THEN [resp |-> Resp("no_conflict_target", NULL, {}), forms |-> forms]
    ELSE IF p \notin patients
    THEN [resp |-> Resp("fk_violation", NULL, {}), forms |-> forms]
    ELSE LET new == UpsertForm(forms, id, p, a, t, clock)
         IN  [resp |-> Resp("ok", ReturnedId(new, p), {}), forms |-> new]

FreshIds(forms) == FormIds \ FormIdsIn(forms)

\* supabase.rpc('create_intake_form', ...) issued by any client
RpcCreateIntakeForm(pr, p, a, t) ==
    /\ Migrated
    /\ \E id \in (IF FreshIds(intake_forms) = {} THEN {NULL} ELSE FreshIds(intake_forms)) :
         LET out == create_intake_form(pr.role, intake_forms, id, p, a, t, now)
         IN  /\ intake_forms' = out.forms
             /\ last' = Req(pr, "rpc", "intake_forms", p, a, t, now,
                            p \in patients, PriorOf(intake_forms, p), out.resp)
    /\ UNCHANGED <<schemaVars, extVars, storeVars, user_roles, patients, email_logs, now, page, run>>

\* INSERT INTO intake_forms issued directly through the REST API
InsertOutcome(pr, forms, p) ==
    IF ~PassesCheck(policies, pr, "INSERT", "intake_forms", NULL) THEN "rls_denied"
    ELSE IF p \notin patients THEN "fk_violation"
    ELSE IF "unique_patient_intake_form" \in constraints /\ FormsOf(forms, p) # {}
    THEN "unique_violation"
    ELSE "ok"

DirectInsertForm(pr, p, a, s) ==
    /\ Migrated
    /\ FreshIds(intake_forms) # {}
    /\ LET code == InsertOutcome(pr, intake_forms, p)
       IN  /\ \E id \in FreshIds(intake_forms) :
                intake_forms' = IF code = "ok"
                                THEN intake_forms \cup {NewForm(id, p, a, s)}
                                ELSE intake_forms
           /\ last' = Req(pr, "insert", "intake_forms", p, a, s, 0,
                          p \in patients, PriorOf(intake_forms, p), Resp(code, NULL, {}))
    /\ UNCHANGED <<schemaVars, extVars, storeVars, user_roles, patients, email_logs, now, page, run>>

\* UPDATE intake_forms SET form_data = a WHERE patient_id = p, directly
DirectUpdateForm(pr, p, a) ==
    /\ Migrated
    /\ LET hit == { f \in FormsOf(intake_forms, p) :
                      /\ PassesUsing(policies, pr, "SELECT", "intake_forms", NULL)
                      /\ PassesUsing(policies, pr, "UPDATE", "intake_forms", NULL)
                      /\ PassesCheck(policies, pr, "UPDATE", "intake_forms", NULL) }
       IN  /\ intake_forms' = { IF f \in hit THEN [f EXCEPT !.form_data = a] ELSE f
                                : f \in intake_forms }
           /\ last' = Req(pr, "update", "intake_forms", p, a, NoTime, 0,
                          FormsOf(intake_forms, p) # {}, PriorOf(intake_forms, p),
                          Resp("ok", NULL, FormIdsIn(hit)))
    /\ UNCHANGED <<schemaVars, extVars, storeVars, user_roles, patients, email_logs, now, page, run>>

\* SELECT on patients (by id) or intake_forms (by patient_id), directly
VisibleRows(pol, pr, tbl, key) ==
    IF tbl = "patients"
    THEN { r \in patients : r = key /\ PassesUsing(pol, pr, "SELECT", tbl, NULL) }
    ELSE { f.id : f \in { g \in intake_forms :
                            /\ g.patient_id = key
                            /\ PassesUsing(pol, pr, "SELECT", tbl, NULL) } }

RowExists(tbl, key) ==
    IF tbl = "patients" THEN key \in patients ELSE FormsOf(intake_forms, key) # {}

DirectSelect(pr, tbl, key) ==
    /\ Migrated
    /\ last' = Req(pr, "select", tbl, key, NULL, NoTime, 0, RowExists(tbl, key),
                   PriorOf(intake_forms, key), Resp("ok", NULL, VisibleRows(policies, pr, tbl, key)))
    /\ UNCHANGED <<schemaVars, extVars, storeVars, dbVars, now, page, run>>

\* IntakeStart.onSubmit: insert a patient under a client generated id
CreatePatient(pr, p) ==
    /\ Migrated
    /\ LET code == IF ~PassesCheck(policies, pr, "INSERT", "patients", NULL)
                   THEN "rls_denied"
                   ELSE IF p \in patients THEN "unique_violation" ELSE "ok"
       IN  /\ patients' = IF code = "ok" THEN patients \cup {p} ELSE patients
           /\ last' = Req(pr, "insert", "patients", p, NULL, NoTime, 0,
                          p \in patients, PriorOf(intake_forms, p), Resp(code, NULL, {}))
    /\ UNCHANGED <<schemaVars, extVars, storeVars, user_roles, intake_forms, email_logs, now, page, run>>

Tick ==
    /\ now < MaxTime
    /\ now' = now + 1
    /\ UNCHANGED <<schemaVars, extVars, storeVars, dbVars, page, run, last>>

\* ------------------------------------------------------------------------
\* The database: migrations, then requests made straight to the API
\* ------------------------------------------------------------------------
InitialRoles ==
    { [user_id |-> "u_admin", role |-> "admin"],
      [user_id |-> "u_staff", role |-> "medical_staff"] }

NoToast == [title |-> "none", variant |-> "none"]
NoPending == [a |-> NULL, t |-> NoTime]

ClosedPage == [pc |-> "closed", patientId |-> NULL, values |-> BaseData,
               signature |-> NULL, errors |-> FALSE, isSubmitting |-> FALSE,
               isLocked |-> FALSE, toast |-> NoToast, pending |-> NoPending,
               rpcError |-> "none", insertedFormId |-> NULL]

NoReply == [status |-> 0, body |-> "none"]
NoRow == [patient_id |-> NULL, form_data |-> NULL, signed_at |-> NoTime]

IdleRun == [pc |-> "idle", caller |-> "none", id |-> NULL, form |-> NoRow,
            patient |-> NULL,
            emailSent |-> FALSE, logStart |-> 0, response |-> NoReply]

\* The name a visitor typed on the start page, for every row id.
InitialNames == [p \in PatientIds \cup SessionPatientIds |-> "Jane Doe"]

SESSION_TIMEOUT_MINUTES == 30
WARNING_MINUTES == 5
TimeoutSeconds == SESSION_TIMEOUT_MINUTES * 60

\* useSessionTimeout as mounted, nobody signed in: useState(true),
\* useState(SESSION_TIMEOUT_MINUTES * 60), useState(false).  signingOut
\* holds while a signOut() call is awaited; idle counts the ticks since
\* the later of the sign-in and the last reset.
MountedTimer ==
    [user |-> NULL, isActive |-> TRUE, timeLeft |-> TimeoutSeconds,
     showWarning |-> FALSE, signingOut |-> FALSE, idle |-> 0]

\* useUserRole as mounted, nobody signed in: the effect has run with
\* user = null.  pending holds the users whose role fetch is in flight.
MountedRoleHook ==
    [user |-> NULL, userRole |-> NULL, loading |-> FALSE, error |-> NULL, pending |-> {}]

\* A createPatientFromSession call that has not started.
IdleCall == [pc |-> "idle", who |-> Nobody, token |-> NULL, session |-> NULL,
             result |-> NULL]

ExtInit ==
    /\ patient_name = InitialNames
    /\ intake_sessions = {}
    /\ calls = [c \in CallIds |-> IdleCall]
    /\ timer = MountedTimer
    /\ roleHook = MountedRoleHook

Init ==
    /\ applied = {}
    /\ policies = {}
    /\ constraints = {}
    /\ rpcGrants = {}
    /\ bucket = "absent"
    /\ objects = {}
    /\ audit_logs = << >>
    /\ user_roles = InitialRoles
    /\ patients = {}
    /\ intake_forms = {}
    /\ email_logs = << >>
    /\ now = 0
    /\ page = ClosedPage
    /\ run = IdleRun
    /\ last = NoReq
    /\ ExtInit

Next ==
    \/ \E m \in AllMigrations : ApplyMigration(m)
    \/ \E pr \in RpcCallers, p \in PatientIds : CreatePatient(pr, p)
    \/ \E pr \in RpcCallers, p \in PatientIds, a \in RpcAnswers, t \in Times \cup {NoTime} :
          RpcCreateIntakeForm(pr, p, a, t)
    \/ \E pr \in Writers, p \in PatientIds, a \in RpcAnswers, s \in {NoTime, now} :
          DirectInsertForm(pr, p, a, s)
    \/ \E pr \in Writers, p \in PatientIds, a \in RpcAnswers :
          DirectUpdateForm(pr, p, a)
    \/ \E pr \in ClientPrincipals, tbl \in {"patients", "intake_forms"}, key \in PatientIds :
          DirectSelect(pr, tbl, key)
    \/ Tick

Spec == Init /\ [][Next]_vars

\* ------------------------------------------------------------------------
\* The intake page (IntakeForms)
\* ------------------------------------------------------------------------

\* zod formSchema with one consent check left out
formSchema_NoInsurance(d) ==
    /\ d.dateOfBirth # ""
    /\ d.address # ""
    /\ d.emergencyContactName # ""
    /\ d.emergencyContactPhone # ""
    /\ d.newPatientConsent = TRUE
    /\ d.patientName # ""
    /\ d.emergencyMedicalConsent = TRUE
    /\ d.accidentDate # ""

\* zod formSchema: min(1) on the strings, refine(val => val === true) on
\* the three consents
formSchema(d) ==
    /\ d.dateOfBirth # ""
    /\ d.address # ""
    /\ d.emergencyContactName # ""
    /\ d.emergencyContactPhone # ""
    /\ d.newPatientConsent = TRUE
    /\ d.patientName # ""
    /\ d.insuranceAssignmentConsent = TRUE
    /\ d.emergencyMedicalConsent = TRUE
    /\ d.accidentDate # ""

Toast(title, variant) == [title |-> title, variant |-> variant]

\* Navigating to /intake/forms?patientId=p, or reloading it: the component
\* mounts with its initial state and checkExistingForms resets it.
OpenPage(p) ==
    /\ Migrated
    /\ page.pc \in {"closed", "idle", "complete"}
    /\ page' = [ClosedPage EXCEPT !.pc = "idle", !.patientId = p]
    /\ UNCHANGED <<schemaVars, extVars, storeVars, dbVars, now, run, last>>

\* The visitor edits the form fields (react-hook-form values)
SetValues(d) ==
    /\ page.pc = "idle" /\ ~page.isLocked
    /\ page' = [page EXCEPT !.values = d]
    /\ UNCHANGED <<schemaVars, extVars, storeVars, dbVars, now, run, last>>

\* SignaturePad.onSignatureChange
SetSignature(sig) ==
    /\ page.pc = "idle" /\ ~page.isLocked
    /\ page' = [page EXCEPT !.signature = sig]
    /\ UNCHANGED <<schemaVars, extVars, storeVars, dbVars, now, run, last>>

\* The submit button: handleSubmit(onSubmit) validates with the resolver and
\* calls onSubmit only with valid data; onSubmit stops without a signature,
\* otherwise sets isSubmitting and issues the rpc with the client's time t.
HandleSubmit(t) ==
    /\ page.pc = "idle" /\ ~page.isLocked /\ ~page.isSubmitting
    /\ Len(email_logs) + 2 <= MaxLogs
    /\ page' =
         IF ~formSchema(page.values)
         THEN [page EXCEPT !.errors = TRUE]
         ELSE IF page.signature = NULL
         THEN [page EXCEPT !.errors = FALSE,
                           !.toast = Toast("Signature Required", "destructive")]
         ELSE [page EXCEPT !.errors = FALSE, !.isSubmitting = TRUE,
                           !.pc = "await_rpc",
                           !.pending = [a |-> WithSignature(page.values, page.signature),
                                        t |-> t]]
    /\ UNCHANGED <<schemaVars, extVars, storeVars, dbVars, now, run, last>>

\* onSubmit after the rpc settled with an error, but locking the form anyway
AfterRpc_LockOnError(pg, code, id) ==
    IF code = "ok"
    THEN [pg EXCEPT !.isLocked = TRUE, !.insertedFormId = id, !.rpcError = "none",
                    !.pc = "await_email", !.pending = NoPending]
    ELSE [pg EXCEPT !.rpcError = code, !.isLocked = TRUE, !.pc = "idle",
                    !.pending = NoPending,
                    !.toast = Toast("Error Saving Form", "destructive")]

\* onSubmit after the rpc settled: { data: insertedFormId, error }, or an
\* exception caught by the outer catch; finally resets isSubmitting.
AfterRpc(pg, code, id) ==
    IF code = "ok"
    THEN [pg EXCEPT !.isLocked = TRUE, !.insertedFormId = id, !.rpcError = "none",
                    !.pc = "await_email", !.pending = NoPending]
    ELSE [pg EXCEPT !.rpcError = code, !.isSubmitting = FALSE, !.pc = "idle",
                    !.pending = NoPending,
                    !.toast = IF code = "thrown"
                              THEN Toast("Error", "destructive")
                              ELSE Toast("Error Saving Form", "destructive")]

StartRun(caller, id) ==
    [IdleRun EXCEPT !.pc = "fetch_form", !.caller = caller, !.id = id,
                    !.logStart = Len(email_logs)]

FetchFailed == [status |-> 0, body |-> "Failed to send a request to the Edge Function"]

\* The rpc settles.  net = "reply": the database ran create_intake_form;
\* "network": the request never reached it; "thrown": the client threw.
\* On success the page locks and calls functions.invoke('send-intake-email');
\* reach says whether that request reaches the function.
PageRpc(net, reach) ==
    /\ page.pc = "await_rpc"
    /\ run.pc = "idle"
    /\ \E id \in (IF FreshIds(intake_forms) = {} THEN {NULL} ELSE FreshIds(intake_forms)) :
         LET out == IF net = "reply"
                    THEN create_intake_form("anon", intake_forms, id, page.patientId,
                                            page.pending.a, page.pending.t, now)
                    ELSE [resp |-> Resp(net, NULL, {}), forms |-> intake_forms]
         IN  /\ intake_forms' = out.forms
             /\ page' = AfterRpc(page, out.resp.code, out.resp.id)
             /\ run' = IF out.resp.code # "ok" THEN run
                       ELSE IF reach THEN StartRun("page", out.resp.id)
                       ELSE [IdleRun EXCEPT !.pc = "done", !.caller = "page",
                                            !.id = out.resp.id,
                                            !.logStart = Len(email_logs),
                                            !.response = FetchFailed]
    /\ UNCHANGED <<schemaVars, extVars, storeVars, user_roles, patients, email_logs, now, last>>

\* if (emailError.message?.includes('SENDGRID_API_KEY') || ...'sender' ||
\* ...'verified'): true of none of the messages functions.invoke produces
MentionsConfiguration(reply) == FALSE

\* The toast for each outcome of the invoke, and the error toast instead
AfterEmail_FailOnError(pg, reply, thrown) ==
    IF thrown \/ reply.status # 200
    THEN [pg EXCEPT !.isSubmitting = FALSE, !.pc = "idle",
                    !.toast = Toast("Error", "destructive")]
    ELSE [pg EXCEPT !.isSubmitting = FALSE, !.pc = "timer",
                    !.toast = Toast("Forms Completed", "default")]

\* onSubmit after functions.invoke settled: a toast for each outcome, then
\* setTimeout(navigate, 2000) and finally setIsSubmitting(false).
AfterEmail(pg, reply, thrown) ==
    [pg EXCEPT !.isSubmitting = FALSE, !.pc = "timer",
               !.toast =
                  IF thrown THEN Toast("Forms Submitted Successfully", "default")
                  ELSE IF reply.status # 200
                  THEN (IF MentionsConfiguration(reply)
                        THEN Toast("Forms Submitted Successfully", "default")
                        ELSE Toast("Forms Submitted", "default"))
                  ELSE Toast("Forms Completed", "default")]

PageEmailReturn(thrown) ==
    /\ page.pc = "await_email"
    /\ run.pc = "done" /\ run.caller = "page"
    /\ thrown => run.response.status = 0
    /\ page' = AfterEmail(page, run.response, thrown)
    /\ run' = IdleRun
    /\ UNCHANGED <<schemaVars, extVars, storeVars, dbVars, now, last>>

\* The timer set by onSubmit fires: navigate('/intake/complete?patientId=')
NavigateTimer ==
    /\ page.pc = "timer"
    /\ page' = [page EXCEPT !.pc = "complete"]
    /\ UNCHANGED <<schemaVars, extVars, storeVars, dbVars, now, run, last>>

\* ------------------------------------------------------------------------
\* send-intake-email
\* ------------------------------------------------------------------------
Reply(status, body) == [status |-> status, body |-> body]

LogRow(id, msg) == [intake_form_id |-> id, error_message |-> msg]

\* logError: insert into email_logs; the result of the insert is ignored.
\* The row is stored when the insert succeeds (ok) and intake_form_id
\* references an existing form.
logError(logs, forms, id, msg, ok) ==
    IF ok /\ id \in FormIdsIn(forms) THEN Append(logs, LogRow(id, msg)) ELSE logs

Finish(r, reply) == [r EXCEPT !.pc = "done", !.response = reply]

\* supabase.functions.invoke('send-intake-email', { body: { intakeFormId } })
\* made by anyone without the page
DirectInvoke(id) ==
    /\ Migrated
    /\ run.pc = "idle"
    /\ page.pc = "closed"
    /\ Len(email_logs) + 2 <= MaxLogs
    /\ run' = IF id = NULL
              THEN Finish(StartRun("direct", id), Reply(400, "Intake form ID is required"))
              ELSE StartRun("direct", id)
    /\ UNCHANGED <<schemaVars, extVars, storeVars, dbVars, now, page, last>>

ReplyFetchError == Reply(500, "Failed to send email: Failed to fetch intake form")
ReplyNotFound == Reply(500, "Failed to send email: Intake form not found")

RunFetchForm(outcome, logOk) ==
    /\ run.pc = "fetch_form"
    /\ LET rows == {f \in intake_forms : f.id = run.id}
       IN  IF outcome = "error"
           THEN /\ email_logs' = logError(email_logs, intake_forms, run.id,
                                          "Failed to fetch intake form", logOk)
                /\ run' = Finish(run, ReplyFetchError)
           ELSE IF rows = {}
           THEN /\ email_logs' = logError(email_logs, intake_forms, run.id,
                                          "Intake form not found", logOk)
                /\ run' = Finish(run, ReplyNotFound)
           ELSE /\ email_logs' = email_logs
                /\ \E f \in rows :
                     run' = [run EXCEPT !.pc = "fetch_patient",
                                        !.form = [patient_id |-> f.patient_id,
                                                  form_data |-> f.form_data,
                                                  signed_at |-> f.signed_at]]
    /\ UNCHANGED <<schemaVars, extVars, storeVars, user_roles, patients, intake_forms, now, page, last>>

RunFetchPatient(outcome, logOk) ==
    /\ run.pc = "fetch_patient"
    /\ IF outcome = "error"
       THEN /\ email_logs' = logError(email_logs, intake_forms, run.id,
                                      "Failed to fetch patient", logOk)
            /\ run' = Finish(run, Reply(500, "Failed to send email: Failed to fetch patient"))
       ELSE IF run.form.patient_id \notin patients
       THEN /\ email_logs' = logError(email_logs, intake_forms, run.id,
                                      "Patient not found", logOk)
            /\ run' = Finish(run, Reply(500, "Failed to send email: Patient not found"))
       ELSE /\ email_logs' = email_logs
            /\ run' = [run EXCEPT !.pc = "upload",
                                  !.patient = patient_name[run.form.patient_id]]
    /\ UNCHANGED <<schemaVars, extVars, storeVars, user_roles, patients, intake_forms, now, page, last>>

\* The object stored under `${intakeFormId}/${fileName}`: the document
\* rendered from the answers the run fetched
\* patient.name.replace(/\s+/g, '_')
FileName(name) ==
    CASE name = "Jane Doe" -> "Jane_Doe"
      [] name = "Janet Roe" -> "Janet_Roe"
      [] OTHER -> name

\* filePath = `${intakeFormId}/${fileName}`
FilePath(id, name) == <<id, FileName(name)>>

Field(fd, k, default) == IF k \in DOMAIN fd THEN fd[k] ELSE default

\* formData.patientName || patient.name
NameOnForm(fd, name) ==
    IF Field(fd, "patientName", "") # "" THEN fd.patientName ELSE name

\* generatePDF(intakeForm, patient): the text and values put on the pages.
\* The date lines print signed_at (date and time of day).
generatePDF(form, name) ==
    LET fd == form.form_data
    IN  [header |-> name,
         submitted |-> form.signed_at,
         name |-> NameOnForm(fd, name),
         dateOfBirth |-> Field(fd, "dateOfBirth", "Not provided"),
         address |-> Field(fd, "address", "Not provided"),
         emergencyContact |-> <<Field(fd, "emergencyContactName", "Not provided"),
                                Field(fd, "emergencyContactPhone", "Not provided")>>,
         accidentDate |-> Field(fd, "accidentDate", ""),
         newPatientSigned |-> Field(fd, "newPatientConsent", FALSE),
         insuranceSigned |-> Field(fd, "insuranceAssignmentConsent", FALSE),
         emergencySigned |-> Field(fd, "emergencyMedicalConsent", FALSE),
         signature |-> Field(fd, "signature", "")]

StoredPdf(path, doc) == [path |-> path, doc |-> doc]

\* generatePDF, then storage.upload(filePath, pdfBuffer, { upsert: true })
RunUpload(outcome) ==
    /\ run.pc = "upload"
    /\ run' = CASE outcome = "render_throws" ->
                     Finish(run, Reply(500, "Failed to send email: render error"))
                [] outcome = "upload_error" ->
                     Finish(run, Reply(500, "Failed to send email: Failed to upload PDF to storage"))
                [] outcome = "ok" -> [run EXCEPT !.pc = "update_pdf"]
    /\ objects' = IF outcome = "ok"
                  THEN {o \in objects : o.path # FilePath(run.id, run.patient)}
                          \cup {StoredPdf(FilePath(run.id, run.patient),
                                          generatePDF(run.form, run.patient))}
                  ELSE objects
    /\ UNCHANGED <<schemaVars, extVars, audit_logs, dbVars, now, page, last>>

\* getPublicUrl(`${intakeFormId}/${fileName}`)
PublicUrl(path) == <<"intake-forms", path>>

\* A pdf_url update that also marks the email as sent
RunUpdatePdf_MarksSent(outcome, logOk) ==
    /\ run.pc = "update_pdf"
    /\ IF outcome = "error"
       THEN /\ email_logs' = logError(email_logs, intake_forms, run.id,
                                      "Failed to update PDF URL", logOk)
            /\ intake_forms' = intake_forms
       ELSE /\ email_logs' = email_logs
            /\ intake_forms' = { IF f.id = run.id
                                 THEN [f EXCEPT !.pdf_url = PublicUrl(FilePath(run.id, run.patient)),
                                                !.pdf_generated_at = now,
                                                !.email_sent = TRUE]
                                 ELSE f : f \in intake_forms }
    /\ run' = [run EXCEPT !.pc = "send_email"]
    /\ UNCHANGED <<schemaVars, extVars, storeVars, user_roles, patients, now, page, last>>

RunUpdatePdf(outcome, logOk) ==
    /\ run.pc = "update_pdf"
    /\ IF outcome = "error"
       THEN /\ email_logs' = logError(email_logs, intake_forms, run.id,
                                      "Failed to update PDF URL", logOk)
            /\ intake_forms' = intake_forms
       ELSE /\ email_logs' = email_logs
            /\ intake_forms' = { IF f.id = run.id
                                 THEN [f EXCEPT !.pdf_url = PublicUrl(FilePath(run.id, run.patient)),
                                                !.pdf_generated_at = now]
                                 ELSE f : f \in intake_forms }
    /\ run' = [run EXCEPT !.pc = "send_email"]
    /\ UNCHANGED <<schemaVars, extVars, storeVars, user_roles, patients, now, page, last>>

ReplyEmailFailed == Reply(200, "PDF generated successfully (email failed)")
ReplyEmailSent == Reply(200, "PDF generated and email sent successfully")

\* A dispatch failure that also clears the signature time of the form
RunSendEmail_Rollback(outcome, logOk) ==
    /\ run.pc = "send_email"
    /\ IF outcome = "fail"
       THEN /\ email_logs' = logError(email_logs, intake_forms, run.id,
                                      "Email sending failed", logOk)
            /\ intake_forms' = { IF f.id = run.id THEN [f EXCEPT !.signed_at = NoTime]
                                 ELSE f : f \in intake_forms }
            /\ run' = Finish(run, ReplyEmailFailed)
       ELSE /\ email_logs' = email_logs
            /\ intake_forms' = intake_forms
            /\ run' = [run EXCEPT !.pc = "update_flag", !.emailSent = TRUE]
    /\ UNCHANGED <<schemaVars, extVars, storeVars, user_roles, patients, now, page, last>>

\* try { await sendEmailWithResend(...); emailSent = true } catch { logError }
\* and, when the dispatch failed, the reply.
RunSendEmail(outcome, logOk) ==
    /\ run.pc = "send_email"
    /\ IF outcome = "fail"
       THEN /\ email_logs' = logError(email_logs, intake_forms, run.id,
                                      "Email sending failed", logOk)
            /\ run' = Finish(run, ReplyEmailFailed)
       ELSE /\ email_logs' = email_logs
            /\ run' = [run EXCEPT !.pc = "update_flag", !.emailSent = TRUE]
    /\ UNCHANGED <<schemaVars, extVars, storeVars, user_roles, patients, intake_forms, now, page, last>>

\* if (emailSent) update({ email_sent: true }), then the reply
RunUpdateFlag(outcome, logOk) ==
    /\ run.pc = "update_flag"
    /\ IF outcome = "error"
       THEN /\ email_logs' = logError(email_logs, intake_forms, run.id,
                                      "Failed to update email_sent flag", logOk)
            /\ intake_forms' = intake_forms
       ELSE /\ email_logs' = email_logs
            /\ intake_forms' = { IF f.id = run.id THEN [f EXCEPT !.email_sent = TRUE]
                                 ELSE f : f \in intake_forms }
    /\ run' = Finish(run, ReplyEmailSent)
    /\ UNCHANGED <<schemaVars, extVars, storeVars, user_roles, patients, now, page, last>>

\* The reply of a direct invocation reaches its anonymous caller
DirectReturn ==
    /\ run.pc = "done" /\ run.caller = "direct"
    /\ last' = Req(Anon, "send-intake-email", "intake_forms", run.id, NULL, NoTime,
                   0, run.form # NoRow, "none",
                   Resp(run.response.body, NULL, {}))
    /\ run' = IdleRun
    /\ UNCHANGED <<schemaVars, extVars, storeVars, dbVars, now, page>>

\* ------------------------------------------------------------------------
\* track-doxy-redirect
\* ------------------------------------------------------------------------
\* The reply of the handler: found says whether the patient has a form,
\* outcome which of the two database calls failed, if any.
TrackReply(found, outcome, formId) ==
    IF outcome = "find_error"
    THEN Resp("Failed to track redirect: Failed to find intake form", NULL, {})
    ELSE IF ~found
    THEN Resp("Failed to track redirect: No intake form found for this patient", NULL, {})
    ELSE IF outcome = "update_error"
    THEN Resp("Failed to track redirect: Failed to update redirect tracking", NULL, {})
    ELSE Resp("Doxy redirect tracked successfully", formId, {})

TrackOutcomes == {"ok", "find_error", "update_error"}

\* A tracked redirect that also stamps the signature time
TrackDoxyRedirect_Resign(pid, outcome) ==
    /\ Migrated
    /\ LET found == FormsOf(intake_forms, pid)
           fid == IF found = {} THEN NULL ELSE (CHOOSE f \in found : TRUE).id
           reply == TrackReply(found # {}, outcome, fid)
       IN  /\ intake_forms' =
                IF reply.id = NULL THEN intake_forms
                ELSE { IF f.id = fid
                       THEN [f EXCEPT !.doxy_redirect_at = now, !.signed_at = NoTime]
                       ELSE f
                       : f \in intake_forms }
           /\ last' = Req(Anon, "track", "intake_forms", pid, NULL, NoTime, 0,
                          found # {}, PriorOf(intake_forms, pid), reply)
    /\ UNCHANGED <<schemaVars, extVars, storeVars, user_roles, patients, email_logs, now, page, run>>

TrackDoxyRedirect(pid, outcome) ==
    /\ Migrated
    /\ LET found == FormsOf(intake_forms, pid)
           fid == IF found = {} THEN NULL ELSE (CHOOSE f \in found : TRUE).id
           reply == TrackReply(found # {}, outcome, fid)
       IN  /\ intake_forms' =
                IF reply.id = NULL THEN intake_forms
                ELSE { IF f.id = fid THEN [f EXCEPT !.doxy_redirect_at = now] ELSE f
                       : f \in intake_forms }
           /\ last' = Req(Anon, "track", "intake_forms", pid, NULL, NoTime, 0,
                          found # {}, PriorOf(intake_forms, pid), reply)
    /\ UNCHANGED <<schemaVars, extVars, storeVars, user_roles, patients, email_logs, now, page, run>>

\* ------------------------------------------------------------------------
\* The intake flow on the migrated database
\* ------------------------------------------------------------------------
InitIntake ==
    /\ applied = AllMigrations
    /\ policies = FinalSchema.policies
    /\ constraints = FinalSchema.constraints
    /\ rpcGrants = FinalSchema.rpcGrants
    /\ bucket = FinalSchema.bucket
    /\ objects = {}
    /\ audit_logs = << >>
    /\ user_roles = InitialRoles
    /\ patients = {"p1"}
    /\ intake_forms = {}
    /\ email_logs = << >>
    /\ now = 0
    /\ page = ClosedPage
    /\ run = IdleRun
    /\ last = NoReq
    /\ ExtInit

RunStep ==
    \/ \E o \in {"ok", "error"}, l \in BOOLEAN : RunFetchForm(o, l)
    \/ \E o \in {"ok", "error"}, l \in BOOLEAN : RunFetchPatient(o, l)
    \/ \E o \in {"ok", "render_throws", "upload_error"} : RunUpload(o)
    \/ \E o \in {"ok", "error"}, l \in BOOLEAN : RunUpdatePdf(o, l)
    \/ \E o \in {"ok", "fail"}, l \in BOOLEAN : RunSendEmail(o, l)
    \/ \E o \in {"ok", "error"}, l \in BOOLEAN : RunUpdateFlag(o, l)

PageRpcStep == \E net \in {"reply", "network", "thrown"}, reach \in BOOLEAN : PageRpc(net, reach)

PageEmailStep == \E thrown \in BOOLEAN : PageEmailReturn(thrown)

NextIntake ==
    \/ \E p \in PatientIds : OpenPage(p)
    \/ \E d \in PageInputs : SetValues(d)
    \/ \E sig \in Signatures : SetSignature(sig)
    \/ \E t \in Times : HandleSubmit(t)
    \/ PageRpcStep
    \/ PageEmailStep
    \/ NavigateTimer
    \/ RunStep

SpecIntake == InitIntake /\ [][NextIntake]_vars

\* The edge functions and the API called without the page
NextFunctions ==
    \/ \E p \in PatientIds, a \in RpcAnswers : RpcCreateIntakeForm(Anon, p, a, NoTime)
    \/ \E id \in FormIds \cup {NULL} : DirectInvoke(id)
    \/ RunStep
    \/ DirectReturn
    \/ \E pid \in PatientIds, o \in TrackOutcomes : TrackDoxyRedirect(pid, o)
    \/ \E key \in PatientIds, tbl \in {"patients", "intake_forms"} : DirectSelect(Anon, tbl, key)

SpecFunctions == InitIntake /\ [][NextFunctions]_vars

\* Every await of the page and of the function settles
LiveSpecIntake ==
    /\ SpecIntake
    /\ WF_vars(PageRpcStep)
    /\ WF_vars(RunStep)
    /\ WF_vars(PageEmailStep)
    /\ WF_vars(NavigateTimer)

\* ------------------------------------------------------------------------
\* Properties of the database
\* ------------------------------------------------------------------------

\* C1: every patient has at most one intake_forms row, whatever sequence of
\* create_intake_form calls and direct inserts has run.
C1_OneFormPerPatient ==
    \A p \in PatientIds : Cardinality(FormsOf(intake_forms, p)) <= 1

\* A duplicate submission reached the table and was refused or absorbed.
C1_Witness ==
    /\ last.tbl = "intake_forms"
    /\ last.prior # "none"
    /\ \/ last.op = "insert" /\ last.resp.code = "unique_violation"
       \/ last.op = "rpc" /\ last.resp.code = "ok"

SameCall(r1, r2) ==
    /\ r1.op = "rpc" /\ r2.op = "rpc"
    /\ r1.resp.code = "ok" /\ r2.resp.code = "ok"
    /\ r1.key = r2.key /\ r1.a = r2.a /\ r1.t = r2.t

\* The form left by a create_intake_form call on a signed form
C2_Overwritten ==
    (last.op = "rpc" /\ last.prior = "signed" /\ last.who.role \in rpcGrants) =>
        /\ last.resp.code = "ok"
        /\ \E f \in intake_forms :
              /\ FormsOf(intake_forms, last.key) = {f}
              /\ f.id = last.resp.id
              /\ f.form_data = last.a
              /\ f.signed_at = (IF last.t = NoTime THEN last.at ELSE last.t)

\* C2 as stated: create_intake_form on a signed form is not rejected, returns
\* the id of the patient's single form, stores the new answers and the new
\* signature time (the clock when none is given), and the same call made
\* again leaves the table as it is.
C2_Original ==
    /\ []C2_Overwritten
    /\ [][SameCall(last, last') => intake_forms' = intake_forms]_vars

\* C2 amended: as above, but the repeated call leaves the table as it is
\* when a signature time is given; with a null signature time it changes
\* signed_at of that form, and nothing else, to the clock of the later call.
C2_Resubmit ==
    /\ []C2_Overwritten
    /\ [][SameCall(last, last') =>
            IF last.t # NoTime \/ last'.at = last.at
            THEN intake_forms' = intake_forms
            ELSE intake_forms' =
                   { IF f.patient_id = last.key THEN [f EXCEPT !.signed_at = last'.at] ELSE f
                     : f \in intake_forms }]_vars

\* A signed form was overwritten through create_intake_form.
C2_Witness ==
    /\ last.op = "rpc" /\ last.prior = "signed" /\ last.resp.code = "ok"
    /\ \E f \in intake_forms : f.id = last.resp.id /\ f.signed_at = last.at /\ last.at > 0

\* C3: once a form is signed, no request of an anonymous principal changes
\* its form_data.
C3_LockedForAnonymous ==
    [][\A f \in intake_forms :
          (f.signed_at # NoTime /\ last'.who = Anon) =>
             \E g \in intake_forms' : g.id = f.id /\ g.form_data = f.form_data]_vars

\* C4: with all migrations applied an anonymous SELECT on patients or
\* intake_forms returns no row for any id, and what an anonymous insert or
\* create_intake_form call returns is at most the id of the row written.
C4_NoAnonymousRead ==
    /\ Migrated =>
         \A tbl \in {"patients", "intake_forms"}, key \in PatientIds :
            VisibleRows(policies, Anon, tbl, key) = {}
    /\ last.who = Anon =>
         /\ last.resp.rows = {}
         /\ last.resp.id # NULL =>
              \E f \in FormsOf(intake_forms, last.key) : f.id = last.resp.id

\* An anonymous SELECT asked for a row that exists.
C4_Witness ==
    /\ last.who = Anon /\ last.op = "select" /\ last.existed
    /\ last.resp.rows = {}

\* C6: with all migrations applied a direct INSERT into intake_forms by an
\* anonymous principal is denied.
C6_AnonymousInsertDenied ==
    (last.who = Anon /\ last.op = "insert" /\ last.tbl = "intake_forms") =>
        last.resp.code = "rls_denied"

\* ------------------------------------------------------------------------
\* Properties of the intake flow and the edge functions
\* ------------------------------------------------------------------------

\* What an anonymous caller is told when the id it names does not exist
\* (absent) and when it exists, for each operation it can call.
RepliesTo(r, exists) ==
    CASE r.op = "select" ->
           IF exists THEN { Resp("ok", NULL, VisibleRows(policies, Anon, r.tbl, r.key)) }
           ELSE { Resp("ok", NULL, {}) }
      [] r.op = "track" ->
           { TrackReply(exists, o, id) : o \in TrackOutcomes,
                                         id \in (IF exists THEN FormIds ELSE {NULL}) }
      [] r.op = "rpc" ->
           IF exists THEN { Resp("ok", id, {}) : id \in FormIds }
           ELSE { Resp("fk_violation", NULL, {}) }
      [] r.op = "send-intake-email" ->
           IF exists THEN { r.resp } \ { Resp(ReplyNotFound.body, NULL, {}) }
           ELSE { Resp(ReplyFetchError.body, NULL, {}),
                  Resp(ReplyNotFound.body, NULL, {}) }
      [] OTHER -> { r.resp }

\* C5: whatever an anonymous caller is told about an id is also what it
\* would be told if the existence of that id were the other way round.
C5_NoExistenceSignal ==
    (last.who = Anon /\ last.key # NULL) =>
        last.resp \in RepliesTo(last, ~last.existed)

RequiredConsents(d) ==
    /\ d.newPatientConsent = TRUE
    /\ d.insuranceAssignmentConsent = TRUE
    /\ d.emergencyMedicalConsent = TRUE

SignatureRequired == Toast("Signature Required", "destructive")

C8_FailedWriteIsRetryable ==
    [][(/\ page.pc = "await_rpc"
        /\ page' # page
        /\ (page.patientId \notin patients \/ page'.rpcError # "none"))
       =>
       /\ intake_forms' = intake_forms
       /\ email_logs' = email_logs
       /\ run' = run /\ run.pc = "idle"
       /\ page'.toast.variant = "destructive"
       /\ page'.pc = "idle"
       /\ ~page'.isLocked /\ ~page'.isSubmitting
       /\ page'.values = page.values /\ page'.signature = page.signature
       /\ page'.rpcError # "none"]_vars

\* The rpc failed on the foreign key and the page is ready for a retry.
C8_Witness ==
    /\ page.pc = "idle" /\ page.rpcError = "fk_violation"
    /\ page.patientId \notin patients
    /\ ~page.isSubmitting /\ ~page.isLocked
    /\ intake_forms = {}

SuccessToasts ==
    { Toast("Forms Completed", "default"),
      Toast("Forms Submitted", "default"),
      Toast("Forms Submitted Successfully", "default") }

\* C9: once create_intake_form has returned successfully the visitor ends up
\* on the completion page with a success toast, and no outcome of
\* send-intake-email puts an error toast in its place.
C9_SuccessAfterLock ==
    /\ [](page.pc \in {"timer", "complete"} => page.toast \in SuccessToasts)
    /\ (page.pc = "await_email") ~> (page.pc = "complete" /\ page.toast \in SuccessToasts)

\* The visitor reached the completion page although the function failed.
C9_Witness ==
    /\ page.pc = "complete"
    /\ page.toast = Toast("Forms Submitted", "default")
    /\ FormsOf(intake_forms, page.patientId) # {}

\* The email_logs rows added by the current run
Added == SubSeq(email_logs, run.logStart + 1, Len(email_logs))

DispatchFailed == run.pc = "done" /\ run.response = ReplyEmailFailed

\* What a step of the run leaves alone in every form
RunKeepsSubmission ==
    (run.pc \notin {"idle", "done"} /\ run' # run) =>
        \A f \in intake_forms :
           \E g \in intake_forms' :
              /\ g.id = f.id /\ g.patient_id = f.patient_id
              /\ g.signed_at = f.signed_at /\ g.form_data = f.form_data

FailingStep ==
    \/ RunUpload("render_throws")
    \/ RunUpload("upload_error")
    \/ \E l \in BOOLEAN : RunUpdatePdf("error", l)
    \/ \E l \in BOOLEAN : RunSendEmail("fail", l)
    \/ \E l \in BOOLEAN : RunUpdateFlag("error", l)

\* C11: every failing step of a send-intake-email run for an existing form
\* (rendering, upload, pdf_url update, dispatch, email_sent update) appends
\* an email_logs row that references the form and carries a message.
C11_EveryFailureLogged ==
    [][FailingStep =>
         /\ Len(email_logs') = Len(email_logs) + 1
         /\ email_logs'[Len(email_logs')].intake_form_id = run.id
         /\ email_logs'[Len(email_logs')].error_message # NULL]_vars

\* What a step of an edge function may change in intake_forms: nothing but
\* pdf_url, pdf_generated_at, email_sent and doxy_redirect_at of one form.
FunctionFrame ==
    /\ patients' = patients
    /\ Cardinality(intake_forms') = Cardinality(intake_forms)
    /\ Cardinality(intake_forms \ intake_forms') <= 1
    /\ \A f \in intake_forms :
          \E g \in intake_forms' :
             /\ g.id = f.id /\ g.patient_id = f.patient_id
             /\ g.form_data = f.form_data /\ g.signed_at = f.signed_at
             /\ g.fax_sent = f.fax_sent

\* C12: no step of send-intake-email and no call of track-doxy-redirect, in
\* any outcome, changes form_data, signed_at or patient_id of a form or
\* removes a form; at most one form changes, in its document, notification
\* and redirect columns only.
C12_FunctionsKeepSubmission ==
    [][(RunStep \/ \E pid \in PatientIds, o \in TrackOutcomes : TrackDoxyRedirect(pid, o))
       => FunctionFrame]_vars

\* A run for a stored, signed form ended in a generation failure after the
\* redirect of the same form was tracked; the submission is still there.
C12_Witness ==
    /\ run.pc = "done" /\ run.response.status = 500 /\ run.form # NoRow
    /\ \E f \in intake_forms :
          /\ f.id = run.id /\ f.doxy_redirect_at # NoTime
          /\ f.signed_at # NoTime /\ f.form_data = run.form.form_data

\* A run step changes email_sent only from false to true, only on the run's
\* own form and only in the update that follows a successful dispatch.
FlagOnlyAfterDispatch ==
    RunStep =>
       \A f \in intake_forms, g \in intake_forms' :
          (g.id = f.id /\ g.email_sent # f.email_sent) =>
             /\ g.email_sent /\ g.id = run.id
             /\ run.pc = "update_flag" /\ run.emailSent

\* The page shows success whatever send-intake-email answered
SuccessWithoutFlag ==
    PageEmailStep => (page'.pc = "timer" /\ page'.toast \in SuccessToasts)

\* C13 as stated: a run whose dispatch succeeded has set email_sent of its
\* form; a run never sets it otherwise; the page's success does not depend
\* on the flag.
C13_Original ==
    /\ [](run.pc = "done" /\ run.emailSent =>
            \E f \in intake_forms : f.id = run.id /\ f.email_sent)
    /\ [][FlagOnlyAfterDispatch]_vars
    /\ [][SuccessWithoutFlag]_vars

\* C13 amended: after a successful dispatch the run sets email_sent of its
\* form when the update is accepted and leaves the form as it is when the
\* update fails; a run never sets the flag when the dispatch failed or was
\* not attempted; the page's success does not depend on the flag.
C13_FlagFollowsDispatch ==
    /\ [][(\E l \in BOOLEAN : RunUpdateFlag("ok", l)) =>
            (run.emailSent /\ \E g \in intake_forms' : g.id = run.id /\ g.email_sent)]_vars
    /\ [][(\E l \in BOOLEAN : RunUpdateFlag("error", l)) => intake_forms' = intake_forms]_vars
    /\ [][FlagOnlyAfterDispatch]_vars
    /\ [][SuccessWithoutFlag]_vars

\* The email went out, the flag update failed, and the visitor still reached
\* the completion page.
C13_Witness ==
    /\ page.pc = "complete" /\ page.toast \in SuccessToasts
    /\ \E f \in intake_forms :
          /\ f.id = page.insertedFormId /\ ~f.email_sent /\ f.pdf_url # NoUrl
    /\ \E i \in 1..Len(email_logs) :
          email_logs[i].error_message = "Failed to update email_sent flag"

\* A successful create_intake_form call for a patient who already has a form
Overwrite(p) ==
    /\ FormsOf(intake_forms, p) # {}
    /\ \E a \in RpcAnswers : RpcCreateIntakeForm(Anon, p, a, NoTime)
    /\ last'.resp.code = "ok"

\* C14: after create_intake_form has overwritten the form of a patient, that
\* form has email_sent false and no pdf_url / pdf_generated_at left from the
\* document rendered before.
C14_OverwriteResetsDocument ==
    [][\A p \in PatientIds :
         Overwrite(p) =>
            \A g \in FormsOf(intake_forms', p) :
               /\ g.email_sent = FALSE
               /\ g.pdf_url = NoUrl
               /\ g.pdf_generated_at = NoTime]_vars

\* ------------------------------------------------------------------------
\* Role assignments
\* ------------------------------------------------------------------------
\* auth.users
UserIds == {"u_admin", "u_staff", "u_none"}

\* CREATE TYPE user_role AS ENUM
RoleNames == {"admin", "medical_staff", "receptionist"}

Authenticated == {AdminUser, StaffUser, NoRoleUser}

RoleRow(u, r) == [user_id |-> u, role |-> r]

RolesOf(roles, u) == {r \in roles : r.user_id = u}

\* create_admin_user(user_email): u is the auth.users row with that email,
\* NULL when there is none.  SECURITY DEFINER; EXECUTE is never revoked, so
\* every role may call it.
create_admin_user(roles, u) ==
    IF u = NULL
    THEN [code |-> "user_not_found", roles |-> roles]
    ELSE IF "user_roles_user_id_key" \notin constraints
    THEN [code |-> "no_conflict_target", roles |-> roles]
    ELSE IF RolesOf(roles, u) # {}
    THEN [code |-> "ok", roles |-> roles]
    ELSE [code |-> "ok", roles |-> roles \cup {RoleRow(u, "admin")}]

\* supabase.rpc('create_admin_user', { user_email }) from the setup page
CreateAdminUser(pr, u) ==
    /\ Migrated
    /\ LET out == create_admin_user(user_roles, u)
       IN  /\ user_roles' = out.roles
           /\ last' = Req(pr, "create_admin_user", "user_roles", u, NULL, NoTime, 0,
                          u # NULL /\ RolesOf(user_roles, u) # {}, "none",
                          Resp(out.code, NULL, {}))
    /\ UNCHANGED <<schemaVars, extVars, storeVars, patients, intake_forms, email_logs, now, page, run>>

\* An insert that is not held back by UNIQUE(user_id)
InsertRole_NoUnique(pr, u, r) ==
    /\ Migrated
    /\ LET code == IF ~PassesCheck(policies, pr, "INSERT", "user_roles", u)
                   THEN "rls_denied" ELSE "ok"
       IN  /\ user_roles' = IF code = "ok" THEN user_roles \cup {RoleRow(u, r)}
                            ELSE user_roles
           /\ last' = Req(pr, "insert", "user_roles", u, NULL, NoTime, 0,
                          RolesOf(user_roles, u) # {}, "none", Resp(code, NULL, {}))
    /\ UNCHANGED <<schemaVars, extVars, storeVars, patients, intake_forms, email_logs, now, page, run>>

\* INSERT INTO user_roles (user_id, role) through the REST API
InsertRole(pr, u, r) ==
    /\ Migrated
    /\ LET code == IF ~PassesCheck(policies, pr, "INSERT", "user_roles", u)
                   THEN "rls_denied"
                   ELSE IF "user_roles_user_id_key" \in constraints
                           /\ RolesOf(user_roles, u) # {}
                   THEN "unique_violation" ELSE "ok"
       IN  /\ user_roles' = IF code = "ok" THEN user_roles \cup {RoleRow(u, r)}
                            ELSE user_roles
           /\ last' = Req(pr, "insert", "user_roles", u, NULL, NoTime, 0,
                          RolesOf(user_roles, u) # {}, "none", Resp(code, NULL, {}))
    /\ UNCHANGED <<schemaVars, extVars, storeVars, patients, intake_forms, email_logs, now, page, run>>

\* UPDATE user_roles SET role = r WHERE user_id = u: rows that pass USING
\* are updated, the new row must pass WITH CHECK.
UpdateRole(pr, u, r) ==
    /\ Migrated
    /\ LET hit == { x \in RolesOf(user_roles, u) :
                      PassesUsing(policies, pr, "UPDATE", "user_roles", x.user_id) }
           code == IF hit = {} THEN "no_rows"
                   ELSE IF ~PassesCheck(policies, pr, "UPDATE", "user_roles", u)
                   THEN "rls_denied" ELSE "ok"
       IN  /\ user_roles' = IF code = "ok"
                            THEN (user_roles \ hit) \cup {RoleRow(x.user_id, r) : x \in hit}
                            ELSE user_roles
           /\ last' = Req(pr, "update", "user_roles", u, NULL, NoTime, 0,
                          RolesOf(user_roles, u) # {}, "none", Resp(code, NULL, {}))
    /\ UNCHANGED <<schemaVars, extVars, storeVars, patients, intake_forms, email_logs, now, page, run>>

\* DELETE FROM user_roles WHERE user_id = u
DeleteRole(pr, u) ==
    /\ Migrated
    /\ LET hit == { x \in RolesOf(user_roles, u) :
                      PassesUsing(policies, pr, "DELETE", "user_roles", x.user_id) }
       IN  /\ user_roles' = user_roles \ hit
           /\ last' = Req(pr, "delete", "user_roles", u, NULL, NoTime, 0,
                          RolesOf(user_roles, u) # {}, "none",
                          Resp(IF hit = {} THEN "no_rows" ELSE "ok", NULL, {}))
    /\ UNCHANGED <<schemaVars, extVars, storeVars, patients, intake_forms, email_logs, now, page, run>>

\* The migrated database before the first admin is set up
InitRoles ==
    /\ applied = AllMigrations
    /\ policies = FinalSchema.policies
    /\ constraints = FinalSchema.constraints
    /\ rpcGrants = FinalSchema.rpcGrants
    /\ bucket = FinalSchema.bucket
    /\ objects = {}
    /\ audit_logs = << >>
    /\ user_roles = {}
    /\ patients = {"p1"}
    /\ intake_forms = {}
    /\ email_logs = << >>
    /\ now = 0
    /\ page = ClosedPage
    /\ run = IdleRun
    /\ last = NoReq
    /\ ExtInit

NextRoles ==
    \/ \E pr \in ClientPrincipals, u \in UserIds \cup {NULL} : CreateAdminUser(pr, u)
    \/ \E pr \in ClientPrincipals, u \in UserIds, r \in RoleNames : InsertRole(pr, u, r)
    \/ \E pr \in ClientPrincipals, u \in UserIds, r \in RoleNames : UpdateRole(pr, u, r)
    \/ \E pr \in ClientPrincipals, u \in UserIds : DeleteRole(pr, u)
    \/ \E a \in RpcAnswers : RpcCreateIntakeForm(Anon, "p1", a, NoTime)
    \/ \E pr \in Authenticated, tbl \in {"patients", "intake_forms"} :
          DirectSelect(pr, tbl, "p1")

SpecRoles == InitRoles /\ [][NextRoles]_vars

\* ------------------------------------------------------------------------
\* Properties of role based access
\* ------------------------------------------------------------------------

\* C15: a read of an existing patient or of a patient's intake form by an
\* authenticated principal returns the row exactly when user_roles holds,
\* at that moment, a row for the principal with role admin, medical_staff
\* or receptionist.
C15_ReadIffRole ==
    [][\A pr \in Authenticated, tbl \in {"patients", "intake_forms"} :
          (DirectSelect(pr, tbl, "p1") /\ RowExists(tbl, "p1")) =>
             ((last'.resp.rows # {}) <=>
                 (\E r \in user_roles :
                     /\ r.user_id = pr.uid
                     /\ r.role \in {"admin", "medical_staff", "receptionist"}))]_vars

\* A principal that an admin gave the role medical_staff reads the intake
\* form of a patient.
C15_Witness ==
    /\ last.op = "select" /\ last.tbl = "intake_forms"
    /\ last.who = NoRoleUser
    /\ last.resp.rows # {}
    /\ RoleRow("u_none", "medical_staff") \in user_roles

\* C16: user_roles changes only in a write by a principal that is an admin
\* at that moment, or in a create_admin_user call made while no admin
\* exists.
C16_OnlyAdminsAssign ==
    [][user_roles' # user_roles =>
         \/ /\ last'.op \in {"insert", "update", "delete"}
            /\ last'.tbl = "user_roles"
            /\ \E r \in user_roles : r.user_id = last'.who.uid /\ r.role = "admin"
         \/ /\ last'.op = "create_admin_user"
            /\ ~(\E r \in user_roles : r.role = "admin")]_vars

\* C17: no principal has two role assignments.
C17_OneRolePerPrincipal ==
    \A r1, r2 \in user_roles : r1.user_id = r2.user_id => r1 = r2

\* An admin's insert for a principal that already has a role was rejected.
C17_Witness ==
    /\ last.op = "insert" /\ last.tbl = "user_roles"
    /\ last.resp.code = "unique_violation"
    /\ RolesOf(user_roles, last.key) # {}
    /\ Cardinality(user_roles) = 3

\* ---------------------------------------------------------------------
\* Reading the stored documents of bucket 'intake-forms'
\* ---------------------------------------------------------------------

ReadPaths == {"public_url", "signed_url"}

HoldsMedicalRole(pr) ==
    \E r \in user_roles : r.user_id = pr.uid /\ r.role \in MedicalRoles

\* A public URL is served without credentials, and only from a public
\* bucket; a signed URL is created for the caller only when the object row
\* passes a SELECT policy of storage.objects.
CanReadObject(pr, via) ==
    IF via = "public_url" THEN bucket = "public"
    ELSE bucket # "absent" /\ PassesUsing(policies, pr, "SELECT", "storage.objects", NULL)

\* handleDownloadPdf fetches the public URL kept in pdf_url;
\* secureFileAccess.getSignedUrl asks storage for a signed URL of the path.
ReadObject(pr, id, via) ==
    /\ Migrated
    /\ LET found == {o \in objects : o.path[1] = id}
           rows == IF CanReadObject(pr, via) THEN found ELSE {}
           code == IF rows # {} THEN "ok" ELSE "not_found"
       IN  last' = Req(pr, "download", "storage.objects", id, via, NoTime, 0,
                       found # {}, "none", Resp(code, NULL, rows))
    /\ UNCHANGED <<schemaVars, extVars, storeVars, dbVars, now, page, run>>

\* A client's select on email_logs: the rows that pass a SELECT policy.
SelectEmailLogs(pr) ==
    /\ Migrated
    /\ LET rows == {email_logs[i] : i \in {j \in 1..Len(email_logs) :
                       PassesUsing(policies, pr, "SELECT", "email_logs", NULL)}}
       IN  last' = Req(pr, "select", "email_logs", NULL, NULL, NoTime, 0,
                       Len(email_logs) > 0, "none", Resp("ok", NULL, rows))
    /\ UNCHANGED <<schemaVars, extVars, storeVars, dbVars, now, page, run>>

InitStorage ==
    /\ applied = AllMigrations
    /\ policies = FinalSchema.policies
    /\ constraints = FinalSchema.constraints
    /\ rpcGrants = FinalSchema.rpcGrants
    /\ bucket = FinalSchema.bucket
    /\ objects = {}
    /\ audit_logs = << >>
    /\ user_roles = InitialRoles
    /\ patients = {"p1"}
    /\ intake_forms = {}
    /\ email_logs = << >>
    /\ now = 0
    /\ page = ClosedPage
    /\ run = IdleRun
    /\ last = NoReq
    /\ ExtInit

NextStorage ==
    \/ \E a \in RpcAnswers : RpcCreateIntakeForm(Anon, "p1", a, NoTime)
    \/ DirectInvoke("f1")
    \/ RunStep
    \/ DirectReturn
    \/ \E r \in RoleNames : UpdateRole(AdminUser, "u_staff", r)
    \/ DeleteRole(AdminUser, "u_staff")
    \/ \E pr \in ClientPrincipals, via \in ReadPaths : ReadObject(pr, "f1", via)

SpecStorage == InitStorage /\ [][NextStorage]_vars

\* C18: a download from bucket 'intake-forms' returns the document only to
\* a principal that holds one of the roles admin, medical_staff or
\* receptionist at that moment; such a principal obtains it through a
\* signed URL, the anonymous caller and a role-less user obtain nothing.
C18_OnlyStaffReadObjects ==
    [][(last'.op = "download" /\ last' # last) =>
          /\ last'.resp.rows # {} => HoldsMedicalRole(last'.who)
          /\ (last'.a = "signed_url" /\ HoldsMedicalRole(last'.who))
                => last'.resp.rows = {o \in objects : o.path[1] = last'.key}]_vars

\* A receptionist obtained the document that a run had uploaded.
C18_Witness ==
    /\ last.op = "download" /\ last.who = StaffUser
    /\ last.resp.rows # {}
    /\ RoleRow("u_staff", "receptionist") \in user_roles
    /\ \E f \in intake_forms : f.id = last.key /\ f.pdf_url # NoUrl

\* ---------------------------------------------------------------------
\* The audit trail (table audit_logs) and the staff dashboard
\* ---------------------------------------------------------------------

MaxAudit == 2

AuditActions == {"PATIENT_VIEW", "INTAKE_FORM_VIEW"}

AuditTable(action) == IF action = "PATIENT_VIEW" THEN "patients" ELSE "intake_forms"

\* The columns of audit_logs that logAction fills from its entry.
AuditRow(uid, action, rec) ==
    [user_id |-> uid, action |-> action, table_name |-> AuditTable(action),
     record_id |-> rec]

RowsOf(seq) == {seq[i] : i \in 1..Len(seq)}

\* logAction: insert of one row with user_id = user?.id || null.
InsertAudit(pr, action, rec) ==
    /\ Migrated
    /\ Len(audit_logs) < MaxAudit
    /\ LET ok == PassesCheck(policies, pr, "INSERT", "audit_logs", pr.uid)
       IN  /\ audit_logs' = IF ok THEN Append(audit_logs, AuditRow(pr.uid, action, rec))
                            ELSE audit_logs
           /\ last' = Req(pr, "insert", "audit_logs", rec, action, NoTime, 0, FALSE, "none",
                          Resp(IF ok THEN "ok" ELSE "rls_denied", NULL, {}))
    /\ UNCHANGED <<schemaVars, extVars, objects, dbVars, now, page, run>>

\* UPDATE audit_logs SET action = ... of the i-th row through the API: the
\* statement touches the rows that pass an UPDATE policy.
UpdateAudit(pr, i, action) ==
    /\ Migrated
    /\ i \in 1..Len(audit_logs)
    /\ LET ok == /\ PassesUsing(policies, pr, "UPDATE", "audit_logs", audit_logs[i].user_id)
                 /\ PassesCheck(policies, pr, "UPDATE", "audit_logs", audit_logs[i].user_id)
       IN  /\ audit_logs' = IF ok
                            THEN [audit_logs EXCEPT ![i] =
                                     AuditRow(@.user_id, action, @.record_id)]
                            ELSE audit_logs
           /\ last' = Req(pr, "update", "audit_logs", audit_logs[i].record_id, action, NoTime, i,
                          TRUE, "none", Resp(IF ok THEN "ok" ELSE "no_rows", NULL, {}))
    /\ UNCHANGED <<schemaVars, extVars, objects, dbVars, now, page, run>>

DeleteAudit_NoRls(pr, i) ==
    /\ Migrated
    /\ i \in 1..Len(audit_logs)
    /\ audit_logs' = [j \in 1..(Len(audit_logs) - 1) |->
                         IF j < i THEN audit_logs[j] ELSE audit_logs[j + 1]]
    /\ last' = Req(pr, "delete", "audit_logs", audit_logs[i].record_id, NULL, NoTime, i,
                   TRUE, "none", Resp("ok", NULL, {}))
    /\ UNCHANGED <<schemaVars, extVars, objects, dbVars, now, page, run>>

\* DELETE of the i-th row through the API: the statement removes the rows
\* that pass a DELETE policy.
DeleteAudit(pr, i) ==
    /\ Migrated
    /\ i \in 1..Len(audit_logs)
    /\ LET ok == PassesUsing(policies, pr, "DELETE", "audit_logs", audit_logs[i].user_id)
       IN  /\ audit_logs' = IF ok
                            THEN [j \in 1..(Len(audit_logs) - 1) |->
                                     IF j < i THEN audit_logs[j] ELSE audit_logs[j + 1]]
                            ELSE audit_logs
           /\ last' = Req(pr, "delete", "audit_logs", audit_logs[i].record_id, NULL, NoTime, i,
                          TRUE, "none", Resp(IF ok THEN "ok" ELSE "no_rows", NULL, {}))
    /\ UNCHANGED <<schemaVars, extVars, objects, dbVars, now, page, run>>

SelectAudit(pr) ==
    /\ Migrated
    /\ LET rows == {r \in RowsOf(audit_logs) :
                      PassesUsing(policies, pr, "SELECT", "audit_logs", r.user_id)}
       IN  last' = Req(pr, "select", "audit_logs", NULL, NULL, NoTime, 0,
                       Len(audit_logs) > 0, "none", Resp("ok", NULL, rows))
    /\ UNCHANGED <<schemaVars, extVars, storeVars, dbVars, now, page, run>>

\* AdminDashboard.fetchData: the list of intake forms with their patients
\* and the count of patients, as the signed-in user; nothing else is sent.
DashboardFetch(pr) ==
    /\ Migrated
    /\ LET forms == UNION {VisibleRows(policies, pr, "intake_forms", k) : k \in PatientIds}
       IN  last' = Req(pr, "dashboard", "intake_forms", NULL, NULL, NoTime, 0,
                       intake_forms # {}, "none", Resp("ok", NULL, forms))
    /\ UNCHANGED <<schemaVars, extVars, storeVars, dbVars, now, page, run>>

InitAudit ==
    /\ applied = AllMigrations
    /\ policies = FinalSchema.policies
    /\ constraints = FinalSchema.constraints
    /\ rpcGrants = FinalSchema.rpcGrants
    /\ bucket = FinalSchema.bucket
    /\ objects = {}
    /\ audit_logs = << >>
    /\ user_roles = InitialRoles
    /\ patients = {"p1"}
    /\ intake_forms = {}
    /\ email_logs = << >>
    /\ now = 0
    /\ page = ClosedPage
    /\ run = IdleRun
    /\ last = NoReq
    /\ ExtInit

NextAudit ==
    \/ \E a \in RpcAnswers : RpcCreateIntakeForm(Anon, "p1", a, NoTime)
    \/ \E r \in RoleNames : UpdateRole(AdminUser, "u_staff", r)
    \/ \E pr \in {Anon, StaffUser}, act \in AuditActions : InsertAudit(pr, act, "p1")
    \/ \E pr \in ClientPrincipals, i \in 1..MaxAudit, act \in AuditActions : UpdateAudit(pr, i, act)
    \/ \E pr \in ClientPrincipals, i \in 1..MaxAudit : DeleteAudit(pr, i)
    \/ \E pr \in ClientPrincipals : SelectAudit(pr)
    \/ \E pr \in Authenticated : DashboardFetch(pr)

SpecAudit == InitAudit /\ [][NextAudit]_vars

\* C19: no request of anon, a role-less user, a receptionist, medical staff
\* or an admin changes or removes a row of audit_logs (the table only
\* grows at its end), and a read of audit_logs returns rows only to an
\* admin.
C19_AuditRowsImmutable ==
    [][/\ Len(audit_logs') >= Len(audit_logs)
       /\ SubSeq(audit_logs', 1, Len(audit_logs)) = audit_logs
       /\ (last' # last /\ last'.op = "select" /\ last'.tbl = "audit_logs"
              /\ last'.resp.rows # {})
            => \E r \in user_roles : r.user_id = last'.who.uid /\ r.role = "admin"]_vars

\* An admin's delete of an existing audit row was answered with no row
\* affected, and the table is still full.
C19_Witness ==
    /\ last.op = "delete" /\ last.tbl = "audit_logs" /\ last.who = AdminUser
    /\ last.resp.code = "no_rows"
    /\ Len(audit_logs) >= 2

\* C20: every read of patients or intake_forms by an authenticated
\* principal that returns rows comes with a new audit_logs row naming the
\* actor, the table and a record read.
C20_AccessIsAudited ==
    [][(/\ last' # last
        /\ last'.op \in {"select", "dashboard"}
        /\ last'.tbl \in {"patients", "intake_forms"}
        /\ last'.who.role = "authenticated"
        /\ last'.resp.rows # {})
         => \E i \in (Len(audit_logs) + 1)..Len(audit_logs') :
               /\ audit_logs'[i].user_id = last'.who.uid
               /\ audit_logs'[i].table_name = last'.tbl]_vars

\* C21: a select on email_logs returns rows only to a principal that holds
\* one of the roles admin, medical_staff or receptionist; anon and a
\* role-less user get none.
C21_OnlyStaffReadEmailLogs ==
    [][(/\ last' # last
        /\ last'.op = "select" /\ last'.tbl = "email_logs"
        /\ last'.resp.rows # {})
         => HoldsMedicalRole(last'.who)]_vars

\* ---------------------------------------------------------------------
\* Documents of a form across runs, renames and resubmissions
\* ---------------------------------------------------------------------

\* UPDATE patients SET name = n WHERE id = p through the API.
UpdatePatientName(pr, p, n) ==
    /\ Migrated
    /\ LET hit == /\ p \in patients
                  /\ PassesUsing(policies, pr, "SELECT", "patients", NULL)
                  /\ PassesUsing(policies, pr, "UPDATE", "patients", NULL)
                  /\ PassesCheck(policies, pr, "UPDATE", "patients", NULL)
       IN  /\ patient_name' = IF hit THEN [patient_name EXCEPT ![p] = n] ELSE patient_name
           /\ last' = Req(pr, "update", "patients", p, n, NoTime, 0, p \in patients, "none",
                          Resp("ok", NULL, IF hit THEN {p} ELSE {}))
    /\ UNCHANGED <<schemaVars, storeVars, sessVars, hookVars, dbVars, now, page, run>>

NextDocuments ==
    \/ \E a \in RpcAnswers : RpcCreateIntakeForm(Anon, "p1", a, NoTime)
    \/ DirectInvoke("f1")
    \/ RunStep
    \/ DirectReturn
    \/ \E pr \in {StaffUser, NoRoleUser}, n \in PatientNames : UpdatePatientName(pr, "p1", n)
    \/ \E pr \in {Anon, NoRoleUser, StaffUser} : SelectEmailLogs(pr)

SpecDocuments == InitIntake /\ [][NextDocuments]_vars

\* The step of a run that stores the rendered document.
Uploads == run.pc = "upload" /\ run'.pc = "update_pdf"

\* The step that ends a run.
Finishes == run.pc # "done" /\ run'.pc = "done"

DocumentsOf(objs, id) == {o \in objs : o.path[1] = id}

\* C22: the document a run renders is determined by the fetched form_data
\* and signed_at: with any other name in the patients row the rendering of
\* the same form gives the same document.
C22_RenderingIsPure ==
    [][Uploads => \A n \in PatientNames :
                     generatePDF(run.form, n) = generatePDF(run.form, run.patient)]_vars

\* C23: every stored document lies under the id of its form, a form never
\* has more than one stored document, and a pdf_url that is set refers to
\* a stored document of the form.
C23_OneDocumentPerForm ==
    /\ \A o \in objects : o.path[1] \in FormIdsIn(intake_forms)
    /\ \A f \in intake_forms :
          /\ Cardinality(DocumentsOf(objects, f.id)) <= 1
          /\ f.pdf_url # NoUrl => \E o \in DocumentsOf(objects, f.id) : f.pdf_url = PublicUrl(o.path)

\* C26: when a run that fetched a form ends, the form is not marked
\* email_sent, and its pdf_url does not refer to a document, unless the
\* answers the run rendered are the stored form_data.
C26_NoStaleDocumentAfterResubmit ==
    [][(Finishes /\ run.form # NoRow) =>
          \A f \in intake_forms' :
             (f.id = run.id /\ f.form_data # run.form.form_data) =>
                /\ ~f.email_sent
                /\ f.pdf_url # PublicUrl(FilePath(run.id, run.patient))]_vars

\* ---------------------------------------------------------------------
\* Intake sessions: creation, validation, completion and the sweep
\* ---------------------------------------------------------------------

SessionRow(token, name, expires) ==
    [token |-> token, patient_name |-> name, expires_at |-> expires, completed |-> FALSE]

NoSession == [token |-> NULL, patient_name |-> NULL, expires_at |-> NoTime,
              completed |-> FALSE]

\* The name typed for the session of a token.
SessionName(token) == IF token = "t1" THEN "Jane Doe" ELSE "Janet Roe"

\* INSERT INTO intake_sessions through the API; session_token is UNIQUE and
\* expires_at takes its default, now() + interval '2 hours' (one tick of
\* the clock).
InsertSession(pr, token) ==
    /\ Migrated
    /\ PassesCheck(policies, pr, "INSERT", "intake_sessions", NULL)
    /\ \A s \in intake_sessions : s.token # token
    /\ intake_sessions' = intake_sessions \cup {SessionRow(token, SessionName(token), now + 1)}
    /\ UNCHANGED <<schemaVars, storeVars, hookVars, patient_name, calls, dbVars, now, page, run, last>>

cleanup_expired_intake_sessions_KeepsNothing(sessions, clock) ==
    {s \in sessions : ~(s.expires_at < clock)}

\* DELETE FROM intake_sessions WHERE expires_at < now() AND completed = false
cleanup_expired_intake_sessions(sessions, clock) ==
    {s \in sessions : ~(s.expires_at < clock /\ s.completed = FALSE)}

\* One call of the function: a single DELETE statement.
CleanupSessions ==
    /\ Migrated
    /\ intake_sessions' = cleanup_expired_intake_sessions(intake_sessions, now)
    /\ last' = Req(Nobody, "cleanup", "intake_sessions", NULL, NULL, NoTime, now,
                   intake_sessions # {}, "none", Resp("ok", NULL, {}))
    /\ UNCHANGED <<schemaVars, storeVars, hookVars, patient_name, calls, dbVars, now, page, run>>

validateSession_IgnoresCompleted(pr, token, outcome) ==
    LET rows == {s \in intake_sessions :
                    /\ PassesUsing(policies, pr, "SELECT", "intake_sessions", NULL)
                    /\ s.token = token
                    /\ s.expires_at > now}
    IN  IF outcome = "error" \/ rows = {} THEN NoSession ELSE CHOOSE s \in rows : TRUE

\* validateSession: select * where session_token = token and completed =
\* false and expires_at > (the caller's clock), maybeSingle; null on error.
validateSession(pr, token, outcome) ==
    LET rows == {s \in intake_sessions :
                    /\ PassesUsing(policies, pr, "SELECT", "intake_sessions", NULL)
                    /\ s.token = token
                    /\ s.completed = FALSE
                    /\ s.expires_at > now}
    IN  IF outcome = "error" \/ rows = {} THEN NoSession ELSE CHOOSE s \in rows : TRUE

\* createPatientFromSession, up to the return of validateSession.
CallValidate(c, pr, token, outcome) ==
    /\ Migrated
    /\ calls[c].pc \in {"idle", "done"}
    /\ LET session == validateSession(pr, token, outcome)
       IN  calls' = [calls EXCEPT ![c] =
                        [pc |-> IF session = NoSession THEN "done" ELSE "insert",
                         who |-> pr, token |-> token, session |-> session,
                         result |-> NULL]]
    /\ UNCHANGED <<schemaVars, storeVars, hookVars, patient_name, intake_sessions, dbVars, now, page,
                   run, last>>

\* insert([{name, phone}]).select('id').single(): the row must pass the
\* INSERT check and, being returned, a SELECT policy.
CallInsert(c, outcome) ==
    /\ calls[c].pc = "insert"
    /\ SessionPatientIds \ patients # {}
    /\ LET pr == calls[c].who
           ok == /\ outcome = "ok"
                 /\ PassesCheck(policies, pr, "INSERT", "patients", NULL)
                 /\ PassesUsing(policies, pr, "SELECT", "patients", NULL)
           id == CHOOSE p \in SessionPatientIds \ patients :
                    \A q \in SessionPatientIds \ patients : p = "p3" \/ q # "p3"
       IN  IF ok
           THEN /\ patients' = patients \cup {id}
                /\ patient_name' = [patient_name EXCEPT ![id] = calls[c].session.patient_name]
                /\ calls' = [calls EXCEPT ![c].pc = "complete", ![c].result = id]
           ELSE /\ patients' = patients
                /\ patient_name' = patient_name
                /\ calls' = [calls EXCEPT ![c].pc = "done", ![c].result = NULL]
    /\ UNCHANGED <<schemaVars, storeVars, hookVars, intake_sessions, user_roles, intake_forms,
                   email_logs, now, page, run, last>>

\* await completeSession(token): update({completed: true}) of the rows with
\* the token; its result is ignored.
CallComplete(c, outcome) ==
    /\ calls[c].pc = "complete"
    /\ LET pr == calls[c].who
           hit == {s \in intake_sessions :
                     /\ s.token = calls[c].token
                     /\ PassesUsing(policies, pr, "SELECT", "intake_sessions", NULL)
                     /\ PassesUsing(policies, pr, "UPDATE", "intake_sessions", NULL)
                     /\ PassesCheck(policies, pr, "UPDATE", "intake_sessions", NULL)}
       IN  intake_sessions' = IF outcome = "ok"
                              THEN {IF s \in hit THEN [s EXCEPT !.completed = TRUE] ELSE s
                                      : s \in intake_sessions}
                              ELSE intake_sessions
    /\ calls' = [calls EXCEPT ![c].pc = "done"]
    /\ UNCHANGED <<schemaVars, storeVars, hookVars, patient_name, dbVars, now, page, run, last>>

\* The clock over the life of a session: before, at and after expires_at.
MaxSessionTime == 2

SessionTick ==
    /\ now < MaxSessionTime
    /\ now' = now + 1
    /\ UNCHANGED <<schemaVars, extVars, storeVars, dbVars, page, run, last>>

NextSessions ==
    \/ SessionTick
    \/ \E t \in SessionTokens : InsertSession(Anon, t)
    \/ CleanupSessions
    \/ \E c \in CallIds, pr \in {Anon, StaffUser}, t \in {"t1", "t0"},
          o \in {"ok", "error"} : CallValidate(c, pr, t, o)
    \/ \E c \in CallIds, o \in {"ok", "error"} : CallInsert(c, o)
    \/ \E c \in CallIds, o \in {"ok", "error"} : CallComplete(c, o)

SpecSessions == InitIntake /\ [][NextSessions]_vars

Expired(s, clock) == s.expires_at < clock /\ ~s.completed

\* C24: a run of cleanup_expired_intake_sessions removes exactly the rows
\* that are expired and not completed and changes no other row; after it
\* no row is left for a second run to remove.
C24_SweepDeletesExpiredOnly ==
    [][CleanupSessions =>
          /\ intake_sessions' \subseteq intake_sessions
          /\ intake_sessions \ intake_sessions' = {s \in intake_sessions : Expired(s, now)}
          /\ \A s \in intake_sessions' : ~Expired(s, now')]_vars

\* A sweep removed the expired session t2 and kept the expired session t1,
\* which is completed.
C24_Witness ==
    /\ last.op = "cleanup" /\ last.at = now
    /\ \E s \in intake_sessions : s.completed /\ s.expires_at < now
    /\ \A s \in intake_sessions : s.token # "t2"
    /\ \E c \in CallIds : calls[c].token = "t1" /\ calls[c].result # NULL

Resolves(token, sessions, clock) ==
    \E s \in sessions : s.token = token /\ ~s.completed /\ s.expires_at > clock

\* C25: a createPatientFromSession call whose token does not resolve to a
\* session that is neither completed nor expired returns null at once and
\* leaves patients and intake_sessions as they were; a patients row is
\* added only by a call that holds such a session from its validation.
C25_InvalidTokenCreatesNothing ==
    [][/\ \A c \in CallIds :
             (calls[c].pc \in {"idle", "done"} /\ calls'[c] # calls[c]
                 /\ ~Resolves(calls'[c].token, intake_sessions, now))
               => /\ calls'[c].pc = "done" /\ calls'[c].result = NULL
                  /\ patients' = patients /\ intake_sessions' = intake_sessions
       /\ patients' # patients =>
             \E c \in CallIds :
                /\ calls[c].pc = "insert"
                /\ calls[c].session.token = calls[c].token
                /\ ~calls[c].session.completed]_vars

\* A call with the token of a completed session returned null after a
\* patient had been created from that session.
C25_Witness ==
    \E c \in CallIds :
       /\ calls[c].pc = "done" /\ calls[c].result = NULL
       /\ calls[c].who = StaffUser
       /\ \E s \in intake_sessions : s.token = calls[c].token /\ s.completed
       /\ "p3" \in patients /\ "p4" \notin patients

\* C27: two createPatientFromSession calls with the same token never both
\* return a patient id, unless it is the same id.
C27_OnePatientPerToken ==
    \A c1, c2 \in CallIds :
       (/\ calls[c1].token = calls[c2].token
        /\ calls[c1].result # NULL /\ calls[c2].result # NULL)
         => calls[c1].result = calls[c2].result

\* ---------------------------------------------------------------------
\* The inactivity timeout (useSessionTimeout)
\* ---------------------------------------------------------------------

TimerUsers == {"u_admin", "u_staff"}

\* resetTimeout()
resetTimeout(t) ==
    [t EXCEPT !.timeLeft = TimeoutSeconds, !.showWarning = FALSE, !.isActive = TRUE,
              !.idle = 0]

\* useAuth reports a signed-in user; the hook keeps its state.
TimerLogin(u) ==
    /\ timer.user = NULL /\ ~timer.signingOut
    /\ timer' = [timer EXCEPT !.user = u, !.idle = 0]
    /\ UNCHANGED <<schemaVars, storeVars, patient_name, sessVars, roleHook, dbVars, now,
                   page, run, last>>

\* A document event reaches handleActivity, or extendSession is called.
TimerActivity ==
    /\ timer.user # NULL /\ ~timer.signingOut
    /\ timer' = resetTimeout(timer)
    /\ UNCHANGED <<schemaVars, storeVars, patient_name, sessVars, roleHook, dbVars, now,
                   page, run, last>>

\* One run of the interval callback, which exists while user && isActive.
\* An awaited signOut() settles within the second.
TimerTick ==
    /\ timer.user # NULL /\ timer.isActive /\ ~timer.signingOut
    /\ LET newTime == timer.timeLeft - 1
       IN  timer' = [timer EXCEPT
                        !.showWarning = @ \/ newTime <= WARNING_MINUTES * 60,
                        !.timeLeft = IF newTime <= 0 THEN 0 ELSE newTime,
                        !.signingOut = @ \/ newTime <= 0,
                        !.idle = IF @ < TimeoutSeconds THEN @ + 1 ELSE @]
    /\ UNCHANGED <<schemaVars, storeVars, patient_name, sessVars, roleHook, dbVars, now,
                   page, run, last>>

\* The awaited signOut() settles: useAuth reports no user.
TimerSignedOut ==
    /\ timer.signingOut
    /\ timer' = [timer EXCEPT !.user = NULL, !.signingOut = FALSE]
    /\ UNCHANGED <<schemaVars, storeVars, patient_name, sessVars, roleHook, dbVars, now,
                   page, run, last>>

NextTimeout ==
    \/ \E u \in TimerUsers : TimerLogin(u)
    \/ TimerActivity
    \/ TimerTick
    \/ TimerSignedOut

SpecTimeout == Init /\ [][NextTimeout]_vars

\* C28: signOut is called by the timeout only after 1800 ticks without a
\* reset since the later of the user's sign-in and the last reset.
C28_SignOutOnlyForInactivity ==
    [][(timer'.signingOut /\ ~timer.signingOut) => timer'.idle >= TimeoutSeconds]_vars

\* ---------------------------------------------------------------------
\* The role shown to the pages (useUserRole)
\* ---------------------------------------------------------------------

HookUsers == {"u_admin", "u_staff", "u_none"}

UserPrincipal(u) == [role |-> "authenticated", uid |-> u]

\* select role ... from user_roles where user_id = u, maybeSingle, as u.
FetchedRole(u) ==
    LET rows == {r \in user_roles :
                   /\ r.user_id = u
                   /\ PassesUsing(policies, UserPrincipal(u), "SELECT", "user_roles", r.user_id)}
    IN  IF rows = {} THEN NULL ELSE (CHOOSE r \in rows : TRUE).role

\* useAuth reports another user (or none): the effect on [user] runs.
HookSetUser(u) ==
    /\ Migrated
    /\ u # roleHook.user
    /\ roleHook' = IF u = NULL
                   THEN [roleHook EXCEPT !.user = NULL, !.userRole = NULL, !.loading = FALSE]
                   ELSE [roleHook EXCEPT !.user = u, !.loading = TRUE, !.error = NULL,
                                         !.pending = @ \cup {u}]
    /\ UNCHANGED <<schemaVars, storeVars, patient_name, sessVars, timer, dbVars, now, page,
                   run, last>>

\* The awaited select of a fetchUserRole call settles.
HookResolve(u, outcome) ==
    /\ u \in roleHook.pending
    /\ roleHook' = [roleHook EXCEPT
                       !.userRole = IF outcome = "ok" THEN FetchedRole(u) ELSE @,
                       !.error = IF outcome = "ok" THEN @ ELSE "Failed to fetch user role",
                       !.loading = FALSE,
                       !.pending = @ \ {u}]
    /\ UNCHANGED <<schemaVars, storeVars, patient_name, sessVars, timer, dbVars, now, page,
                   run, last>>

NextRoleHook ==
    \/ \E u \in HookUsers \cup {NULL} : HookSetUser(u)
    \/ \E u \in HookUsers, o \in {"ok", "error"} : HookResolve(u, o)

SpecRoleHook == InitIntake /\ [][NextRoleHook]_vars

\* C29: whenever the hook shows loading = false for a signed-in user, the
\* role it exposes is none or the role that user holds.
C29_ExposedRoleIsCurrentUsers ==
    (roleHook.user # NULL /\ ~roleHook.loading /\ roleHook.userRole # NULL)
       => \E r \in user_roles : r.user_id = roleHook.user /\ r.role = roleHook.userRole

\* C30: a create_admin_user call that returns without error leaves the
\* named user with the role admin; a call for an email that matches no
\* user raises an error and changes no role assignment.
C30_SuccessMeansAdmin ==
    [][\A pr \in ClientPrincipals, u \in UserIds \cup {NULL} :
          CreateAdminUser(pr, u) =>
             /\ last'.resp.code = "ok" => RoleRow(u, "admin") \in user_roles'
             /\ u = NULL => (last'.resp.code = "user_not_found" /\ user_roles' = user_roles)]_vars

====
